---- MODULE Spec2Model ----
(***************************************************************************)
(* Model of the NIT Jamshedpur crawl-and-index pipeline:                   *)
(*   - NITJSRScraper (scraper.js): frontier, scrapePage, PDF ingestion,    *)
(*     statistics, snapshot, driven by the server's /scrape route;         *)
(*   - EnhancedNITJSRRAGSystem (enhancedRagSystem.js): link database,      *)
(*     chunk batching with embedding/upsert, chat.                         *)
(* JavaScript strings are sequences of one-character strings, so that      *)
(* toLowerCase, includes, split, replace are computed and not assumed.     *)
(***************************************************************************)
EXTENDS Integers, Sequences, FiniteSets, TLC

(***************************************************************************)
(* JavaScript string primitives                                            *)
(***************************************************************************)
UpperChars == <<"A", "B", "C", "D", "E", "F", "G", "H", "I", "J", "K", "L", "M", "N", "O", "P", "Q", "R", "S", "T", "U", "V", "W", "X", "Y", "Z">>
LowerChars == <<"a", "b", "c", "d", "e", "f", "g", "h", "i", "j", "k", "l", "m", "n", "o", "p", "q", "r", "s", "t", "u", "v", "w", "x", "y", "z">>

\* String.prototype.toLowerCase, one character
ToLowerChar(c) ==
    IF \E i \in 1..Len(UpperChars) : UpperChars[i] = c
    THEN LowerChars[CHOOSE i \in 1..Len(UpperChars) : UpperChars[i] = c]
    ELSE c

\* String.prototype.toLowerCase
ToLowerCase(s) == [i \in 1..Len(s) |-> ToLowerChar(s[i])]

\* s.startsWith(p)
StartsWith(s, p) == Len(p) <= Len(s) /\ SubSeq(s, 1, Len(p)) = p

\* s.endsWith(p)
EndsWith(s, p) == Len(p) <= Len(s) /\ SubSeq(s, Len(s) - Len(p) + 1, Len(s)) = p

\* s.includes(p)
Includes(s, p) ==
    Len(p) <= Len(s) /\ \E i \in 0..(Len(s) - Len(p)) : SubSeq(s, i + 1, i + Len(p)) = p

\* s.indexOf(p), 1-based; 0 when p does not occur
IndexOf(s, p) ==
    IF Includes(s, p)
    THEN 1 + CHOOSE i \in 0..(Len(s) - Len(p)) :
             /\ SubSeq(s, i + 1, i + Len(p)) = p
             /\ \A j \in 0..(i - 1) : SubSeq(s, j + 1, j + Len(p)) # p
    ELSE 0

\* s.replace(p, r) with a string pattern: the first occurrence only
ReplaceFirst(s, p, r) ==
    LET k == IndexOf(s, p)
    IN  IF k = 0 THEN s
        ELSE SubSeq(s, 1, k - 1) \o r \o SubSeq(s, k + Len(p), Len(s))

\* the characters the regular expression class \s matches (those the model uses)
WhiteSpace == {" ", "\t", "\n"}

\* s.replace(/\s+/g, '_'): every maximal run of white space becomes one underscore
RECURSIVE ReplaceWsRuns(_)
ReplaceWsRuns(s) ==
    IF s = <<>> THEN <<>>
    ELSE IF Head(s) \in WhiteSpace
         THEN IF Len(s) > 1 /\ s[2] \in WhiteSpace
              THEN ReplaceWsRuns(Tail(s))
              ELSE <<"_">> \o ReplaceWsRuns(Tail(s))
         ELSE <<Head(s)>> \o ReplaceWsRuns(Tail(s))

\* s.split('/') then the last part: the text after the last slash
RECURSIVE LastPart(_)
LastPart(s) ==
    IF ~Includes(s, <<"/">>) THEN s
    ELSE LastPart(SubSeq(s, IndexOf(s, <<"/">>) + 1, Len(s)))

\* the prefix of s before the first character that is in `stops`
RECURSIVE UpTo(_, _)
UpTo(s, stops) ==
    IF s = <<>> \/ Head(s) \in stops THEN <<>>
    ELSE <<Head(s)>> \o UpTo(Tail(s), stops)

(***************************************************************************)
(* WHATWG URL, as far as the scraper uses it: new URL(href, base)          *)
(***************************************************************************)
Https == <<"h", "t", "t", "p", "s", ":", "/", "/">>
Http == <<"h", "t", "t", "p", ":", "/", "/">>
OpaqueSchemes == {<<"m", "a", "i", "l", "t", "o", ":">>, <<"t", "e", "l", ":">>, <<"j", "a", "v", "a", "s", "c", "r", "i", "p", "t", ":">>}

IsHierarchical(u) == StartsWith(u, Https) \/ StartsWith(u, Http)
IsOpaque(u) == \E p \in OpaqueSchemes : StartsWith(ToLowerCase(u), p)

\* the text after "scheme://"
AfterScheme(u) ==
    IF StartsWith(u, Https) THEN SubSeq(u, Len(Https) + 1, Len(u))
    ELSE SubSeq(u, Len(Http) + 1, Len(u))

SchemeOf(u) == IF StartsWith(u, Https) THEN Https ELSE Http

\* URL.hostname of an absolute URL ('' for mailto:, tel:, javascript:)
Hostname(u) ==
    IF IsHierarchical(u) THEN ToLowerCase(UpTo(AfterScheme(u), {"/", "?", "#"}))
    ELSE <<>>

\* URL.pathname of an absolute URL
Pathname(u) ==
    IF IsHierarchical(u)
    THEN LET rest == AfterScheme(u)
             host == UpTo(rest, {"/", "?", "#"})
             tail == SubSeq(rest, Len(host) + 1, Len(rest))
             p    == UpTo(tail, {"?", "#"})
         IN  IF p = <<>> THEN <<"/">> ELSE p
    ELSE IF IsOpaque(u)
         THEN UpTo(SubSeq(u, IndexOf(u, <<":">>) + 1, Len(u)), {"?", "#"})
         ELSE <<>>

\* URL.origin of an absolute hierarchical URL
Origin(u) == SchemeOf(u) \o Hostname(u)

\* URL.href of an absolute hierarchical URL: lower-cased host, "/" for an empty path
Href(u) ==
    LET rest == AfterScheme(u)
        host == UpTo(rest, {"/", "?", "#"})
        tail == SubSeq(rest, Len(host) + 1, Len(rest))
    IN  Origin(u) \o (IF tail = <<>> \/ Head(tail) # "/" THEN <<"/">> ELSE <<>>) \o tail

\* the directory of a path: everything up to and including the last slash
RECURSIVE DirOf(_)
DirOf(p) ==
    IF p = <<>> THEN <<"/">>
    ELSE IF p[Len(p)] = "/" THEN p
    ELSE DirOf(SubSeq(p, 1, Len(p) - 1))

\* new URL(href, base): [ok |-> FALSE] when the constructor throws
ResolveUrl(href, base) ==
    IF IsHierarchical(href)
    THEN IF Hostname(href) = <<>> THEN [ok |-> FALSE, href |-> <<>>]
         ELSE [ok |-> TRUE, href |-> Href(href)]
    ELSE IF IsOpaque(href) THEN [ok |-> TRUE, href |-> href]
    ELSE IF ~IsHierarchical(base) \/ Hostname(base) = <<>>
         THEN [ok |-> FALSE, href |-> <<>>]
    ELSE IF href = <<>> THEN [ok |-> TRUE, href |-> UpTo(Href(base), {"#"})]
    ELSE IF Head(href) = "/" THEN [ok |-> TRUE, href |-> Origin(base) \o href]
    ELSE IF Head(href) = "#" THEN [ok |-> TRUE, href |-> UpTo(Href(base), {"#"}) \o href]
    ELSE [ok |-> TRUE, href |-> Origin(base) \o DirOf(Pathname(base)) \o href]

(***************************************************************************)
(* Sequence helpers                                                        *)
(***************************************************************************)
Range(s) == {s[i] : i \in 1..Len(s)}

\* Set.prototype.add on a Set of strings, kept in insertion order
SetAdd(s, x) == IF x \in Range(s) THEN s ELSE Append(s, x)

\* Array.prototype.filter(Boolean) on an array of strings: drops the empty ones
RECURSIVE FilterNonEmpty(_)
FilterNonEmpty(ss) ==
    IF ss = <<>> THEN <<>>
    ELSE IF Head(ss) = <<>> THEN FilterNonEmpty(Tail(ss))
    ELSE <<Head(ss)>> \o FilterNonEmpty(Tail(ss))

\* Array.prototype.join(sep)
RECURSIVE Join(_, _)
Join(ss, sep) ==
    IF ss = <<>> THEN <<>>
    ELSE IF Len(ss) = 1 THEN ss[1]
    ELSE ss[1] \o sep \o Join(Tail(ss), sep)

\* s.split(' ').length
SplitSpaceLength(s) == 1 + Cardinality({i \in 1..Len(s) : s[i] = " "})

Min(a, b) == IF a <= b THEN a ELSE b

(***************************************************************************)
(* NITJSRScraper: URL classifier                                           *)
(***************************************************************************)
baseUrl == <<"h", "t", "t", "p", "s", ":", "/", "/", "n", "i", "t", "j", "s", "r", ".", "a", "c", ".", "i", "n">>
Domain == <<"n", "i", "t", "j", "s", "r", ".", "a", "c", ".", "i", "n">>

Categories ==
    <<"academics", "admissions", "placements", "faculty", "students", "research",
      "administration", "news", "events", "departments", "general">>

\* the ordered rules of categorizeUrl: keywords looked up in the URL, in the content
CategoryRules ==
    << [cat |-> "placements",
        url |-> {<<"p", "l", "a", "c", "e", "m", "e", "n", "t">>, <<"c", "a", "r", "e", "e", "r">>, <<"t", "r", "a", "i", "n", "i", "n", "g">>},
        content |-> {<<"p", "l", "a", "c", "e", "m", "e", "n", "t">>, <<"c", "a", "r", "e", "e", "r">>, <<"c", "o", "r", "p", "o", "r", "a", "t", "e">>}],
       [cat |-> "admissions",
        url |-> {<<"a", "d", "m", "i", "s", "s", "i", "o", "n">>, <<"a", "p", "p", "l", "y">>, <<"e", "n", "t", "r", "a", "n", "c", "e">>, <<"j", "e", "e">>},
        content |-> {<<"a", "d", "m", "i", "s", "s", "i", "o", "n">>, <<"e", "l", "i", "g", "i", "b", "i", "l", "i", "t", "y">>}],
       [cat |-> "academics",
        url |-> {<<"a", "c", "a", "d", "e", "m", "i", "c">>, <<"s", "y", "l", "l", "a", "b", "u", "s">>, <<"c", "u", "r", "r", "i", "c", "u", "l", "u", "m">>, <<"c", "o", "u", "r", "s", "e">>, <<"p", "r", "o", "g", "r", "a", "m">>},
        content |-> {<<"a", "c", "a", "d", "e", "m", "i", "c">>}],
       [cat |-> "faculty",
        url |-> {<<"f", "a", "c", "u", "l", "t", "y">>, <<"s", "t", "a", "f", "f">>, <<"t", "e", "a", "c", "h", "e", "r">>, <<"h", "o", "d">>},
        content |-> {<<"p", "r", "o", "f", "e", "s", "s", "o", "r">>, <<"f", "a", "c", "u", "l", "t", "y">>}],
       [cat |-> "students",
        url |-> {<<"s", "t", "u", "d", "e", "n", "t">>, <<"h", "o", "s", "t", "e", "l">>, <<"a", "c", "t", "i", "v", "i", "t", "y">>, <<"c", "l", "u", "b">>, <<"s", "o", "c", "i", "e", "t", "y">>},
        content |-> {<<"s", "t", "u", "d", "e", "n", "t", " ", "l", "i", "f", "e">>}],
       [cat |-> "research",
        url |-> {<<"r", "e", "s", "e", "a", "r", "c", "h">>, <<"p", "u", "b", "l", "i", "c", "a", "t", "i", "o", "n">>, <<"p", "h", "d">>, <<"p", "r", "o", "j", "e", "c", "t">>, <<"i", "n", "n", "o", "v", "a", "t", "i", "o", "n">>},
        content |-> {<<"r", "e", "s", "e", "a", "r", "c", "h">>}],
       [cat |-> "departments",
        url |-> {<<"d", "e", "p", "a", "r", "t", "m", "e", "n", "t">>, <<"d", "e", "p", "t">>, <<"/", "c", "s", "e">>, <<"/", "e", "c", "e">>, <<"/", "m", "e", "c", "h">>, <<"/", "e", "e", "e">>, <<"/", "c", "i", "v", "i", "l">>,
                 <<"/", "c", "h", "e">>, <<"/", "m", "m", "e">>, <<"/", "p", "h", "y">>, <<"/", "c", "h", "e", "m">>, <<"/", "m", "a", "t", "h">>, <<"/", "h", "s", "s">>},
        content |-> {}],
       [cat |-> "news",
        url |-> {<<"n", "e", "w", "s">>, <<"a", "n", "n", "o", "u", "n", "c", "e", "m", "e", "n", "t">>, <<"n", "o", "t", "i", "c", "e">>, <<"t", "e", "n", "d", "e", "r">>, <<"r", "e", "c", "r", "u", "i", "t", "m", "e", "n", "t">>},
        content |-> {<<"n", "e", "w", "s">>}],
       [cat |-> "events",
        url |-> {<<"e", "v", "e", "n", "t">>, <<"s", "e", "m", "i", "n", "a", "r">>, <<"w", "o", "r", "k", "s", "h", "o", "p">>, <<"c", "o", "n", "f", "e", "r", "e", "n", "c", "e">>, <<"s", "y", "m", "p", "o", "s", "i", "u", "m">>},
        content |-> {<<"e", "v", "e", "n", "t">>}],
       [cat |-> "administration",
        url |-> {<<"a", "d", "m", "i", "n">>, <<"o", "f", "f", "i", "c", "e">>, <<"r", "e", "g", "i", "s", "t", "r", "a", "r">>, <<"d", "i", "r", "e", "c", "t", "o", "r">>, <<"d", "e", "a", "n">>},
        content |-> {<<"a", "d", "m", "i", "n", "i", "s", "t", "r", "a", "t", "i", "o", "n">>}] >>

RuleMatches(r, urlLower, contentLower) ==
    \/ \E k \in r.url : Includes(urlLower, k)
    \/ \E k \in r.content : Includes(contentLower, k)

\* the if chain of categorizeUrl with the last matching rule winning
CategorizeWith_LastRule(rules, url, content) ==
    LET urlLower == ToLowerCase(url)
        contentLower == ToLowerCase(content)
        hits == {i \in 1..Len(rules) : RuleMatches(rules[i], urlLower, contentLower)}
    IN  IF hits = {} THEN "general"
        ELSE rules[CHOOSE i \in hits : \A j \in hits : i >= j].cat

\* the if chain of categorizeUrl: the first rule that matches returns
CategorizeWith(rules, url, content) ==
    LET urlLower == ToLowerCase(url)
        contentLower == ToLowerCase(content)
        hits == {i \in 1..Len(rules) : RuleMatches(rules[i], urlLower, contentLower)}
    IN  IF hits = {} THEN "general"
        ELSE rules[CHOOSE i \in hits : \A j \in hits : i <= j].cat

categorizeUrl(url, content) == CategorizeWith(CategoryRules, url, content)

\* the rules of NITJSRComprehensiveScraper.categorizeUrl: the same order, fewer keywords
ComprehensiveCategoryRules ==
    << [cat |-> "placements",
        url |-> {<<"p", "l", "a", "c", "e", "m", "e", "n", "t">>, <<"c", "a", "r", "e", "e", "r">>},
        content |-> {<<"p", "l", "a", "c", "e", "m", "e", "n", "t">>, <<"c", "a", "r", "e", "e", "r">>}],
       [cat |-> "admissions",
        url |-> {<<"a", "d", "m", "i", "s", "s", "i", "o", "n">>, <<"a", "p", "p", "l", "y">>},
        content |-> {<<"a", "d", "m", "i", "s", "s", "i", "o", "n">>, <<"e", "l", "i", "g", "i", "b", "i", "l", "i", "t", "y">>}],
       [cat |-> "academics",
        url |-> {<<"a", "c", "a", "d", "e", "m", "i", "c">>, <<"s", "y", "l", "l", "a", "b", "u", "s">>, <<"c", "u", "r", "r", "i", "c", "u", "l", "u", "m">>},
        content |-> {<<"a", "c", "a", "d", "e", "m", "i", "c">>}],
       [cat |-> "faculty",
        url |-> {<<"f", "a", "c", "u", "l", "t", "y">>, <<"s", "t", "a", "f", "f">>},
        content |-> {<<"p", "r", "o", "f", "e", "s", "s", "o", "r">>, <<"f", "a", "c", "u", "l", "t", "y">>}],
       [cat |-> "students",
        url |-> {<<"s", "t", "u", "d", "e", "n", "t">>, <<"h", "o", "s", "t", "e", "l">>, <<"a", "c", "t", "i", "v", "i", "t", "y">>},
        content |-> {<<"s", "t", "u", "d", "e", "n", "t", " ", "l", "i", "f", "e">>}],
       [cat |-> "research",
        url |-> {<<"r", "e", "s", "e", "a", "r", "c", "h">>, <<"p", "u", "b", "l", "i", "c", "a", "t", "i", "o", "n">>, <<"p", "h", "d">>},
        content |-> {<<"r", "e", "s", "e", "a", "r", "c", "h">>}],
       [cat |-> "departments",
        url |-> {<<"d", "e", "p", "a", "r", "t", "m", "e", "n", "t">>, <<"d", "e", "p", "t">>, <<"/", "c", "s", "e">>, <<"/", "e", "c", "e">>, <<"/", "m", "e", "c", "h">>},
        content |-> {}],
       [cat |-> "news",
        url |-> {<<"n", "e", "w", "s">>, <<"a", "n", "n", "o", "u", "n", "c", "e", "m", "e", "n", "t">>, <<"n", "o", "t", "i", "c", "e">>},
        content |-> {<<"n", "e", "w", "s">>}],
       [cat |-> "events",
        url |-> {<<"e", "v", "e", "n", "t">>, <<"s", "e", "m", "i", "n", "a", "r">>, <<"w", "o", "r", "k", "s", "h", "o", "p">>},
        content |-> {<<"e", "v", "e", "n", "t">>}],
       [cat |-> "administration",
        url |-> {<<"a", "d", "m", "i", "n">>, <<"o", "f", "f", "i", "c", "e">>, <<"r", "e", "g", "i", "s", "t", "r", "a", "r">>},
        content |-> {<<"a", "d", "m", "i", "n", "i", "s", "t", "r", "a", "t", "i", "o", "n">>}] >>

comprehensiveCategorizeUrl(url, content) ==
    CategorizeWith(ComprehensiveCategoryRules, url, content)

skipExtensions ==
    {<<".", "j", "p", "g">>, <<".", "j", "p", "e", "g">>, <<".", "p", "n", "g">>, <<".", "g", "i", "f">>, <<".", "c", "s", "s">>, <<".", "j", "s">>, <<".", "i", "c", "o">>, <<".", "s", "v", "g">>, <<".", "w", "o", "f", "f">>,
     <<".", "w", "o", "f", "f", "2">>, <<".", "t", "t", "f">>}
skipPatterns ==
    {<<"m", "a", "i", "l", "t", "o", ":">>, <<"t", "e", "l", ":">>, <<"j", "a", "v", "a", "s", "c", "r", "i", "p", "t", ":">>, <<"#">>, <<"f", "a", "c", "e", "b", "o", "o", "k", ".", "c", "o", "m">>, <<"t", "w", "i", "t", "t", "e", "r", ".", "c", "o", "m">>,
     <<"l", "i", "n", "k", "e", "d", "i", "n", ".", "c", "o", "m">>, <<"y", "o", "u", "t", "u", "b", "e", ".", "c", "o", "m">>, <<"g", "o", "o", "g", "l", "e", ".", "c", "o", "m">>, <<"m", "a", "p", "s", ".", "g", "o", "o", "g", "l", "e">>, <<"i", "n", "s", "t", "a", "g", "r", "a", "m", ".", "c", "o", "m">>}

\* the body isValidUrl has in both scrapers, over the scraper's skipExtensions
IsValidWith(url, extensions) ==
    LET r == ResolveUrl(url, baseUrl)
    IN  /\ r.ok
        /\ Includes(Hostname(r.href), Domain)
        /\ ~\E ext \in extensions : EndsWith(ToLowerCase(Pathname(r.href)), ext)
        /\ ~\E pat \in skipPatterns : Includes(ToLowerCase(url), pat)

isValidUrl(url) == IsValidWith(url, skipExtensions)

\* NITJSRComprehensiveScraper.isValidUrl: the same with a shorter skipExtensions
comprehensiveSkipExtensions ==
    {<<".", "j", "p", "g">>, <<".", "j", "p", "e", "g">>, <<".", "p", "n", "g">>, <<".", "g", "i", "f">>, <<".", "c", "s", "s">>, <<".", "j", "s">>, <<".", "i", "c", "o">>, <<".", "s", "v", "g">>}
comprehensiveIsValidUrl(url) == IsValidWith(url, comprehensiveSkipExtensions)

(***************************************************************************)
(* The web site the browser renders: page.goto(url) followed by the two    *)
(* page.evaluate calls yields SitePage(url) or throws.                     *)
(***************************************************************************)
U_home == <<"h", "t", "t", "p", "s", ":", "/", "/", "n", "i", "t", "j", "s", "r", ".", "a", "c", ".", "i", "n", "/">>
U_placements == <<"h", "t", "t", "p", "s", ":", "/", "/", "n", "i", "t", "j", "s", "r", ".", "a", "c", ".", "i", "n", "/", "S", "t", "u", "d", "e", "n", "t", "s", "/", "P", "l", "a", "c", "e", "m", "e", "n", "t", "s">>
U_cse == <<"h", "t", "t", "p", "s", ":", "/", "/", "n", "i", "t", "j", "s", "r", ".", "a", "c", ".", "i", "n", "/", "D", "e", "p", "t", "/", "C", "S", "E">>
U_people == <<"h", "t", "t", "p", "s", ":", "/", "/", "n", "i", "t", "j", "s", "r", ".", "a", "c", ".", "i", "n", "/", "D", "e", "p", "t", "/", "P", "e", "o", "p", "l", "e">>
U_prof == <<"h", "t", "t", "p", "s", ":", "/", "/", "n", "i", "t", "j", "s", "r", ".", "a", "c", ".", "i", "n", "/", "D", "e", "p", "t", "/", "P", "e", "o", "p", "l", "e", "/", "P", "r", "o", "f">>
U_pdf1 == <<"h", "t", "t", "p", "s", ":", "/", "/", "n", "i", "t", "j", "s", "r", ".", "a", "c", ".", "i", "n", "/", "d", "o", "c", "s", "/", "P", "l", "a", "c", "e", "m", "e", "n", "t", "_", "2", "0", "2", "3", ".", "p", "d", "f">>
U_pdf2 == <<"h", "t", "t", "p", "s", ":", "/", "/", "n", "i", "t", "j", "s", "r", ".", "a", "c", ".", "i", "n", "/", "d", "o", "c", "s", "/", "B", "r", "o", "c", "h", "u", "r", "e", ".", "P", "D", "F">>

RawLink(href, text) == [href |-> href, text |-> text, title |-> <<>>, parentText |-> text]

EmptyPage == [title |-> <<>>, headings |-> <<>>, content |-> <<>>, description |-> <<>>,
              keywords |-> <<>>, links |-> <<>>]

Heading(level, text) == [level |-> level, text |-> text]

SitePage(url) ==
    CASE url = U_home ->
           [title |-> <<"N", "I", "T", " ", "J", "a", "m", "s", "h", "e", "d", "p", "u", "r">>, headings |-> <<Heading(1, <<"W", "e", "l", "c", "o", "m", "e">>)>>,
            content |-> <<<<"N", "a", "t", "i", "o", "n", "a", "l", " ", "I", "n", "s", "t", "i", "t", "u", "t", "e", " ", "o", "f", " ", "T", "e", "c", "h", "n", "o", "l", "o", "g", "y">>>>,
            description |-> <<>>, keywords |-> <<>>,
            links |-> << RawLink(<<"/", "S", "t", "u", "d", "e", "n", "t", "s", "/", "P", "l", "a", "c", "e", "m", "e", "n", "t", "s">>, <<"P", "l", "a", "c", "e", "m", "e", "n", "t", "s">>),
                         RawLink(<<"/", "d", "o", "c", "s", "/", "P", "l", "a", "c", "e", "m", "e", "n", "t", "_", "2", "0", "2", "3", ".", "p", "d", "f">>, <<"P", "l", "a", "c", "e", "m", "e", "n", "t", " ", "R", "e", "p", "o", "r", "t", " ", "2", "0", "2", "3">>),
                         RawLink(<<"h", "t", "t", "p", "s", ":", "/", "/", "w", "w", "w", ".", "y", "o", "u", "t", "u", "b", "e", ".", "c", "o", "m", "/", "n", "i", "t", "j", "s", "r">>, <<"V", "i", "d", "e", "o", "s">>),
                         RawLink(<<"/", "i", "m", "g", "/", "l", "o", "g", "o", ".", "p", "n", "g">>, <<"l", "o", "g", "o">>),
                         RawLink(<<"#", "t", "o", "p">>, <<"T", "o", "p">>),
                         RawLink(<<"h", "t", "t", "p", ":", "/", "/">>, <<"b", "r", "o", "k", "e", "n">>),
                         RawLink(<<"/", "D", "e", "p", "t", "/", "C", "S", "E">>, <<"C", "S", "E">>) >>]
      [] url = U_placements ->
           [title |-> <<"P", "l", "a", "c", "e", "m", "e", "n", "t", "s">>, headings |-> <<>>,
            content |-> <<<<"T", "r", "a", "i", "n", "i", "n", "g", " ", "a", "n", "d", " ", "p", "l", "a", "c", "e", "m", "e", "n", "t", " ", "c", "e", "l", "l">>>>,
            description |-> <<"C", "a", "r", "e", "e", "r", " ", "s", "e", "r", "v", "i", "c", "e", "s">>, keywords |-> <<>>,
            links |-> << RawLink(<<"/">>, <<"H", "o", "m", "e">>),
                         RawLink(<<"/", "d", "o", "c", "s", "/", "P", "l", "a", "c", "e", "m", "e", "n", "t", "_", "2", "0", "2", "3", ".", "p", "d", "f">>, <<"R", "e", "p", "o", "r", "t">>),
                         RawLink(<<"/", "d", "o", "c", "s", "/", "B", "r", "o", "c", "h", "u", "r", "e", ".", "P", "D", "F">>, <<"B", "r", "o", "c", "h", "u", "r", "e">>),
                         RawLink(<<"/", "D", "e", "p", "t", "/", "C", "S", "E">>, <<"C", "o", "m", "p", "u", "t", "e", "r", " ", "S", "c", "i", "e", "n", "c", "e">>) >>]
      [] url = U_cse ->
           [title |-> <<"C", "S", "E">>, headings |-> <<>>, content |-> <<>>,
            description |-> <<>>, keywords |-> <<>>,
            links |-> << RawLink(<<"P", "e", "o", "p", "l", "e">>, <<"P", "e", "o", "p", "l", "e">>) >>]
      [] url = U_people ->
           [title |-> <<"P", "e", "o", "p", "l", "e">>, headings |-> <<>>, content |-> <<<<"O", "u", "r", " ", "p", "r", "o", "f", "e", "s", "s", "o", "r", "s">>>>,
            description |-> <<>>, keywords |-> <<>>,
            links |-> << RawLink(<<"/", "D", "e", "p", "t", "/", "P", "e", "o", "p", "l", "e", "/", "P", "r", "o", "f">>, <<"P", "r", "o", "f">>) >>]
      [] OTHER -> EmptyPage

\* the seeds of scrapeComprehensive (the first NumSeeds entries of startUrls)
startUrls == <<U_home, U_placements>>

\* what axios.get + pdfParse yield for a PDF URL that downloads and decodes
PdfFile(url) ==
    CASE url = U_pdf1 -> [text |-> <<"P", "l", "a", "c", "e", "m", "e", "n", "t", " ", "s", "t", "a", "t", "i", "s", "t", "i", "c", "s", " ", "2", "0", "2", "3">>, numpages |-> 2]
      [] OTHER -> [text |-> <<"I", "n", "s", "t", "i", "t", "u", "t", "e", " ", "b", "r", "o", "c", "h", "u", "r", "e">>, numpages |-> 1]

(***************************************************************************)
(* Bounds of the model                                                     *)
(***************************************************************************)
MaxOptPages == 3       \* options.maxPages ranges over 0..MaxOptPages (0: not given)
MaxOptDepth == 2       \* options.maxDepth ranges over 0..MaxOptDepth (0: not given)
MaxSessions == 2       \* scrapeComprehensive invocations on one scraper instance

(***************************************************************************)
(* Program constants                                                       *)
(***************************************************************************)
DefaultMaxPages == 300
DefaultMaxDepth == 4
PdfCap == 50

(***************************************************************************)
(* State                                                                   *)
(***************************************************************************)
VARIABLES
    \* ---- NITJSRScraper
    options,        \* the options object given to the constructor
    maxPages,       \* this.maxPages
    maxDepth,       \* this.maxDepth
    browser,        \* this.browser is an open browser
    visited,        \* this.visited
    toVisit,        \* this.toVisit, a Set of fresh objects: insertion order, no merging
    pdfUrls,        \* this.pdfUrls, in insertion order
    scrapedData,    \* this.scrapedData
    pc,             \* where scrapeComprehensive stands
    cur,            \* the (url, depth) scrapePage is rendering
    pdfIndex,       \* i of processPDFDocuments
    pdfArray,       \* pdfArray of processPDFDocuments
    outcome,        \* how the last scrapeComprehensive ended: "none", "returned", "threw"
    sessions,       \* number of scrapeComprehensive invocations so far
    lastReturn,     \* what the last scrapePage call returned: "none", "null", "page"
    gotoLog,        \* history: every page.goto so far, as (url, depth, session)
    popLog,         \* history: the entries popped from the frontier in this invocation
    failed,         \* history: the URLs whose render failed
    snapshot,       \* the snapshot written by the last successful saveData
    phaseLog        \* history: the steps of the current invocation, in order

VARIABLES
    \* ---- EnhancedNITJSRRAGSystem and its external services
    isInitialized,  \* this.isInitialized
    linkDatabase,   \* this.linkDatabase, a Map
    index,          \* the Pinecone index: a map from vector id to its metadata
    ragPc,          \* where the running RAG call stands ("idle": none is running)
    dataRef,        \* the scrapedData argument of processAndStoreDocuments: its number in Snapshots
    batchIndex,     \* batchIndex of processAndStoreDocuments
    procResult,     \* how the last processAndStoreDocuments ended
    question,       \* the argument of chat
    relevantDocs,   \* relevantDocs of chat
    chatResult,     \* how the last chat ended
    calls,          \* number of RAG calls made so far
    batchLog,       \* history: the events of the batch loop of the current call
    upserted,       \* history: the ids upserted by the current call
    chatLog,        \* history: the external calls made by the current chat
    callLog,        \* history: the RAG calls so far, each when called and when it ended
    rejected,       \* history: the embedQuery calls of the last batch embedded that rejected
    chatEntry       \* history: isInitialized and linkDatabase when the current chat was called

VARIABLES
    \* ---- a single call of a function of the scraper or the RAG system
    fnCall,         \* the function called and its arguments
    fnResult        \* what it returned

VARIABLES
    \* ---- NITJSRServer
    serverInitialized,  \* this.isInitialized of the server
    dataExists,         \* scraped_data holds a snapshot file
    handlers,           \* the startup callback (0) and the requests: route and position
    processEnv          \* the required variables of process.env that are set

ragVars == <<isInitialized, linkDatabase, index, ragPc, dataRef, batchIndex, procResult,
             question, relevantDocs, chatResult, calls, batchLog, upserted, chatLog, callLog,
             rejected, chatEntry>>

scraperVars == <<options, maxPages, maxDepth, browser, visited, toVisit, pdfUrls, scrapedData,
                 pc, cur, pdfIndex, pdfArray, outcome, sessions, lastReturn, gotoLog, popLog,
                 failed, snapshot, phaseLog>>

fnVars == <<fnCall, fnResult>>

serverVars == <<serverInitialized, dataExists, handlers, processEnv>>

nonScraperVars == <<ragVars, fnVars, serverVars>>
nonRagVars == <<scraperVars, fnVars, serverVars>>
nonFnVars == <<scraperVars, ragVars, serverVars>>
nonServerVars == <<scraperVars, ragVars, fnVars>>

(***************************************************************************)
(* NITJSRScraper                                                           *)
(***************************************************************************)
\* JavaScript's a || b on numbers: 0 is falsy
OrDefault(a, b) == IF a = 0 THEN b ELSE a

EmptyScrapedData ==
    [pages |-> <<>>,
     documents |-> [pdfs |-> <<>>],
     links |-> [internal |-> <<>>, external |-> <<>>, pdf |-> <<>>, image |-> <<>>],
     categories |-> [c \in Range(Categories) |-> <<>>],
     statistics |-> [totalPages |-> 0, totalPDFs |-> 0, totalLinks |-> 0, categorizedPages |-> 0]]

NoEntry == [url |-> <<>>, depth |-> 0]

\* constructor(options)
ScraperInit ==
    /\ options \in [maxPages : 0..MaxOptPages, maxDepth : 0..MaxOptDepth]
    /\ maxPages = OrDefault(options.maxPages, DefaultMaxPages)
    /\ maxDepth = OrDefault(options.maxDepth, DefaultMaxDepth)
    /\ browser = FALSE
    /\ visited = {}
    /\ toVisit = <<>>
    /\ pdfUrls = <<>>
    /\ scrapedData = EmptyScrapedData
    /\ pc = "idle"
    /\ cur = NoEntry
    /\ pdfIndex = 0
    /\ pdfArray = <<>>
    /\ outcome = "none"
    /\ sessions = 0
    /\ lastReturn = "none"
    /\ gotoLog = <<>>
    /\ popLog = <<>>
    /\ failed = {}
    /\ snapshot = EmptyScrapedData
    /\ phaseLog = <<>>

\* scrapePage's early return without its depth test
ScrapePageSkips_AnyDepth(url, depth, vis, mp, md) ==
    url \in vis \/ Cardinality(vis) >= mp

\* scrapePage's early return without its visited test
ScrapePageSkips_IgnoreVisited(url, depth, vis, mp, md) ==
    depth > md \/ Cardinality(vis) >= mp

\* scrapePage's early return
ScrapePageSkips(url, depth, vis, mp, md) ==
    url \in vis \/ depth > md \/ Cardinality(vis) >= mp

\* the image test of scrapePage: /\.(jpg|jpeg|png|gif|webp)$/
ImageExtensions == {<<".", "j", "p", "g">>, <<".", "j", "p", "e", "g">>, <<".", "p", "n", "g">>, <<".", "g", "i", "f">>, <<".", "w", "e", "b", "p">>}
IsImageHref(hrefLower) == \E e \in ImageExtensions : EndsWith(hrefLower, e)

\* a frontier test that forgets the visited set
ShouldEnqueue_IgnoreVisited(fullUrl, vis) == isValidUrl(fullUrl)

\* the test of scrapePage before this.toVisit.add
ShouldEnqueue(fullUrl, vis) == isValidUrl(fullUrl) /\ fullUrl \notin vis

\* an iteration that tests the domain before the extensions
ProcessLink_DomainFirst(link, url, title, depth, vis, acc) ==
    LET r == ResolveUrl(link.href, url)
        fullUrl == r.href
        linkData == [url |-> fullUrl, text |-> link.text, title |-> link.title,
                     sourceUrl |-> url, sourceTitle |-> title, context |-> link.parentText]
        hrefLower == ToLowerCase(link.href)
    IN  IF ~r.ok THEN acc
        ELSE IF Includes(fullUrl, Domain)
        THEN [acc EXCEPT !.links.internal = Append(@, linkData),
                         !.toVisit = IF ShouldEnqueue(fullUrl, vis)
                                     THEN Append(@, [url |-> fullUrl, depth |-> depth + 1])
                                     ELSE @]
        ELSE IF Includes(hrefLower, <<".", "p", "d", "f">>)
        THEN [acc EXCEPT !.links.pdf = Append(@, linkData),
                         !.pdfUrls = SetAdd(@, fullUrl)]
        ELSE IF IsImageHref(hrefLower)
        THEN [acc EXCEPT !.links.image = Append(@, linkData)]
        ELSE [acc EXCEPT !.links.external = Append(@, linkData)]

\* one iteration of pageData.links.forEach in scrapePage, on the accumulators
\*   acc = [links, pdfUrls, toVisit]
ProcessLink(link, url, title, depth, vis, acc) ==
    LET r == ResolveUrl(link.href, url)
        fullUrl == r.href
        linkData == [url |-> fullUrl, text |-> link.text, title |-> link.title,
                     sourceUrl |-> url, sourceTitle |-> title, context |-> link.parentText]
        hrefLower == ToLowerCase(link.href)
    IN  IF ~r.ok THEN acc
        ELSE IF Includes(hrefLower, <<".", "p", "d", "f">>)
        THEN [acc EXCEPT !.links.pdf = Append(@, linkData),
                         !.pdfUrls = SetAdd(@, fullUrl)]
        ELSE IF IsImageHref(hrefLower)
        THEN [acc EXCEPT !.links.image = Append(@, linkData)]
        ELSE IF Includes(fullUrl, Domain)
        THEN [acc EXCEPT !.links.internal = Append(@, linkData),
                         !.toVisit = IF ShouldEnqueue(fullUrl, vis)
                                     THEN Append(@, [url |-> fullUrl, depth |-> depth + 1])
                                     ELSE @]
        ELSE [acc EXCEPT !.links.external = Append(@, linkData)]

RECURSIVE ProcessLinks(_, _, _, _, _, _)
ProcessLinks(links, url, title, depth, vis, acc) ==
    IF links = <<>> THEN acc
    ELSE ProcessLinks(Tail(links), url, title, depth, vis,
                      ProcessLink(Head(links), url, title, depth, vis, acc))

\* allContent of scrapePage
AllContent(pageData) ==
    Join(FilterNonEmpty(<<pageData.title>>
                        \o [i \in 1..Len(pageData.headings) |-> pageData.headings[i].text]
                        \o pageData.content
                        \o <<pageData.description, pageData.keywords>>), <<" ">>)

ProcessedPage(url, depth, pageData) ==
    [url |-> url, depth |-> depth, title |-> pageData.title,
     headings |-> pageData.headings,
     content |-> AllContent(pageData), links |-> pageData.links,
     metadata |-> [description |-> pageData.description, keywords |-> pageData.keywords],
     category |-> categorizeUrl(url, AllContent(pageData)),
     wordCount |-> SplitSpaceLength(AllContent(pageData))]

\* a scrapePage that puts the page at the front of the page list
StorePage_Unshift(data, page) ==
    [data EXCEPT !.categories[page.category] = Append(@, page),
                 !.pages = <<page>> \o @]

\* a scrapePage that pushes the page on the page list only
StorePage_PagesOnly(data, page) == [data EXCEPT !.pages = Append(@, page)]

\* the two pushes of scrapePage: on the page's category bucket and on the page list
StorePage(data, page) ==
    [data EXCEPT !.categories[page.category] = Append(@, page),
                 !.pages = Append(@, page)]

\* the try block of scrapePage when page.goto and the page.evaluate calls return,
\* on st = [data, pdfUrls, toVisit]
ScrapePageTry(url, depth, vis, st) ==
    LET pageData == SitePage(url)
        page == ProcessedPage(url, depth, pageData)
        data1 == StorePage(st.data, page)
        acc == ProcessLinks(pageData.links, url, pageData.title, depth, vis,
                            [links |-> data1.links, pdfUrls |-> st.pdfUrls,
                             toVisit |-> st.toVisit])
    IN  [data |-> [data1 EXCEPT !.links = acc.links], pdfUrls |-> acc.pdfUrls,
         toVisit |-> acc.toVisit, ret |-> "page"]

\* a catch block that puts the failed URL back on the frontier
ScrapePageCatch_Requeue(url, depth, st) ==
    [data |-> st.data, pdfUrls |-> st.pdfUrls,
     toVisit |-> Append(st.toVisit, [url |-> url, depth |-> depth]), ret |-> "null"]

\* the catch block of scrapePage: page.goto or page.evaluate threw
ScrapePageCatch(url, depth, st) ==
    [data |-> st.data, pdfUrls |-> st.pdfUrls, toVisit |-> st.toVisit, ret |-> "null"]

\* the try block of scrapePage and its catch: `rendered` is whether page.goto and
\* the page.evaluate calls returned
ScrapePageBody(rendered, url, depth, vis, st) ==
    IF rendered THEN ScrapePageTry(url, depth, vis, st) ELSE ScrapePageCatch(url, depth, st)

\* the frontier at the start of the crawl loop: startUrls.forEach(toVisit.add)
SeedFrontier(frontier) ==
    frontier \o [i \in 1..Len(startUrls) |-> [url |-> startUrls[i], depth |-> 0]]

\* the statements of scrapeComprehensive in another order: the PDFs before the crawl loop
PhaseAfter_PdfsFirst(p) ==
    CASE p = "initialize" -> "pdfs"
      [] p = "pdfs" -> "loop"
      [] p = "loop" -> "save"
      [] p = "save" -> "cleanup"

\* the statements of scrapeComprehensive, one after another: the crawl loop,
\* processPDFDocuments with updateStatistics, saveData, cleanup
PhaseAfter(p) ==
    CASE p = "initialize" -> "loop"
      [] p = "loop" -> "pdfs"
      [] p = "pdfs" -> "save"
      [] p = "save" -> "cleanup"

\* scrapeComprehensive is called (POST /scrape, initializeSystem, testScraper)
ScrapeComprehensive ==
    /\ pc = "idle"
    /\ sessions < MaxSessions
    /\ sessions' = sessions + 1
    /\ pc' = "initialize"
    /\ outcome' = "none"
    /\ popLog' = <<>>
    /\ UNCHANGED <<options, maxPages, maxDepth, browser, visited, toVisit, pdfUrls, scrapedData,
                   cur, pdfIndex, pdfArray, lastReturn, gotoLog, failed, snapshot>>
    /\ UNCHANGED nonScraperVars
    /\ phaseLog' = <<>>

\* initialize() returns; the seeds are added to the frontier
InitializeOk ==
    /\ pc = "initialize"
    /\ browser' = TRUE
    /\ toVisit' = SeedFrontier(toVisit)
    /\ pc' = PhaseAfter("initialize")
    /\ UNCHANGED <<options, maxPages, maxDepth, visited, pdfUrls, scrapedData, cur, pdfIndex,
                   pdfArray, outcome, sessions, lastReturn, gotoLog, popLog, failed, snapshot>>
    /\ UNCHANGED nonScraperVars
    /\ UNCHANGED phaseLog

\* initialize() throws: puppeteer.launch fails, or, with this.browser assigned,
\* newPage or one of the page settings fails
InitializeFail(launched) ==
    /\ pc = "initialize"
    /\ browser' = IF launched THEN TRUE ELSE browser
    /\ pc' = "catch"
    /\ UNCHANGED <<options, maxPages, maxDepth, visited, toVisit, pdfUrls, scrapedData,
                   cur, pdfIndex, pdfArray, outcome, sessions, lastReturn, gotoLog, popLog,
                   failed, snapshot>>
    /\ UNCHANGED nonScraperVars
    /\ UNCHANGED phaseLog

\* a loop condition that leaves the page cap to scrapePage
LoopContinues_IgnoreCap(frontier, vis, mp) == Len(frontier) > 0

\* the condition of the while loop of scrapeComprehensive
LoopContinues(frontier, vis, mp) == Len(frontier) > 0 /\ Cardinality(vis) < mp

\* a loop that takes the entry added last
PopFrontier_Newest(frontier) ==
    [entry |-> frontier[Len(frontier)], rest |-> SubSeq(frontier, 1, Len(frontier) - 1)]

\* Array.from(this.toVisit)[0] and this.toVisit.delete of it
PopFrontier(frontier) == [entry |-> Head(frontier), rest |-> Tail(frontier)]

\* one turn of the while loop up to the await inside scrapePage
LoopPop ==
    /\ pc = "loop"
    /\ LoopContinues(toVisit, visited, maxPages)
    /\ LET e == PopFrontier(toVisit).entry
       IN  /\ toVisit' = PopFrontier(toVisit).rest
           /\ popLog' = Append(popLog, e)
           /\ IF ScrapePageSkips(e.url, e.depth, visited, maxPages, maxDepth)
              THEN /\ lastReturn' = "null"
                   /\ UNCHANGED <<visited, pc, cur, gotoLog>>
              ELSE /\ visited' = visited \cup {e.url}
                   /\ gotoLog' = Append(gotoLog, [url |-> e.url, depth |-> e.depth,
                                                    session |-> sessions])
                   /\ cur' = e
                   /\ pc' = "goto"
                   /\ UNCHANGED lastReturn
    /\ UNCHANGED <<options, maxPages, maxDepth, browser, pdfUrls, scrapedData, pdfIndex,
                   pdfArray, outcome, sessions, failed, snapshot>>
    /\ UNCHANGED nonScraperVars
    /\ phaseLog' = IF ScrapePageSkips(PopFrontier(toVisit).entry.url,
                                       PopFrontier(toVisit).entry.depth, visited,
                                       maxPages, maxDepth)
                    THEN phaseLog ELSE Append(phaseLog, "goto")

\* what scrapePage's try block, or its catch, leaves behind
RenderResult(ok) ==
    ScrapePageBody(ok, cur.url, cur.depth, visited,
                   [data |-> scrapedData, pdfUrls |-> pdfUrls, toVisit |-> toVisit])

Rendered(ok) ==
    /\ pc = "goto"
    /\ scrapedData' = RenderResult(ok).data
    /\ pdfUrls' = RenderResult(ok).pdfUrls
    /\ toVisit' = RenderResult(ok).toVisit
    /\ lastReturn' = RenderResult(ok).ret
    /\ failed' = IF ok THEN failed ELSE failed \cup {cur.url}
    /\ pc' = "loop"
    /\ cur' = NoEntry
    /\ UNCHANGED <<options, maxPages, maxDepth, browser, visited, pdfIndex, pdfArray, outcome,
                   sessions, gotoLog, popLog, snapshot>>
    /\ UNCHANGED nonScraperVars
    /\ phaseLog' = IF ok THEN Append(phaseLog, "page") ELSE phaseLog

RenderOk == Rendered(TRUE)
RenderFail == Rendered(FALSE)

\* the while loop ends; processPDFDocuments starts
LoopExit ==
    /\ pc = "loop"
    /\ ~LoopContinues(toVisit, visited, maxPages)
    /\ pdfArray' = pdfUrls
    /\ pdfIndex' = 0
    /\ pc' = PhaseAfter("loop")
    /\ UNCHANGED <<options, maxPages, maxDepth, browser, visited, toVisit, pdfUrls, scrapedData,
                   cur, outcome, sessions, lastReturn, gotoLog, popLog, failed, snapshot>>
    /\ UNCHANGED nonScraperVars
    /\ UNCHANGED phaseLog

\* this.scrapedData.links.pdf.find(link => link.url === pdfUrl): 0 when undefined
FindPdfLink(pdfLinks, pdfUrl) ==
    IF \E i \in 1..Len(pdfLinks) : pdfLinks[i].url = pdfUrl
    THEN CHOOSE i \in 1..Len(pdfLinks) :
             /\ pdfLinks[i].url = pdfUrl
             /\ \A j \in 1..(i - 1) : pdfLinks[j].url # pdfUrl
    ELSE 0

PdfDoc(pdfUrl, pdfLinks) ==
    LET k == FindPdfLink(pdfLinks, pdfUrl)
        f == PdfFile(pdfUrl)
    IN  [url |-> pdfUrl,
         title |-> IF k > 0 THEN pdfLinks[k].text ELSE LastPart(pdfUrl),
         text |-> f.text, pages |-> f.numpages,
         category |-> categorizeUrl(pdfUrl, f.text),
         sourceUrl |-> IF k > 0 THEN pdfLinks[k].sourceUrl ELSE <<>>,
         sourceTitle |-> IF k > 0 THEN pdfLinks[k].sourceTitle ELSE <<>>,
         context |-> IF k > 0 THEN pdfLinks[k].context ELSE <<>>,
         wordCount |-> SplitSpaceLength(f.text)]

\* a processPDFDocuments without the limit
MaxPdfsOf_NoCap(array) == Len(array)

\* const maxPdfs = Math.min(pdfArray.length, 50)
MaxPdfsOf(array) == Min(Len(array), PdfCap)

maxPdfs == MaxPdfsOf(pdfArray)

\* a loop body whose catch block records the failed PDF with an empty text
PdfIteration_RecordFailure(data, pdfUrl, ok) ==
    [data EXCEPT !.documents.pdfs =
        Append(@, IF ok THEN PdfDoc(pdfUrl, data.links.pdf)
                  ELSE [PdfDoc(pdfUrl, data.links.pdf) EXCEPT !.text = <<>>])]

\* the body of the for loop of processPDFDocuments: axios.get and pdfParse return
\* and the document is pushed, or one of them throws and the catch block logs
PdfIteration(data, pdfUrl, ok) ==
    IF ok
    THEN [data EXCEPT !.documents.pdfs = Append(@, PdfDoc(pdfUrl, data.links.pdf))]
    ELSE data

\* one iteration of processPDFDocuments: the download and decode succeed or throw
PdfStep(ok) ==
    /\ pc = "pdfs"
    /\ pdfIndex < maxPdfs
    /\ scrapedData' = PdfIteration(scrapedData, pdfArray[pdfIndex + 1], ok)
    /\ pdfIndex' = pdfIndex + 1
    /\ UNCHANGED <<options, maxPages, maxDepth, browser, visited, toVisit, pdfUrls, pc, cur,
                   pdfArray, outcome, sessions, lastReturn, gotoLog, popLog, failed, snapshot>>
    /\ UNCHANGED nonScraperVars
    /\ phaseLog' = IF ok THEN phaseLog \o <<"pdf", "document">> ELSE Append(phaseLog, "pdf")

PdfOk == PdfStep(TRUE)
PdfFail == PdfStep(FALSE)

RECURSIVE SumLen(_, _)
SumLen(f, keys) ==
    IF keys = {} THEN 0
    ELSE LET k == CHOOSE x \in keys : TRUE
         IN  Len(f[k]) + SumLen(f, keys \ {k})

updateStatistics(data) ==
    [data EXCEPT !.statistics =
        [totalPages |-> Len(data.pages),
         totalPDFs |-> Len(data.documents.pdfs),
         totalLinks |-> Len(data.links.internal) + Len(data.links.external)
                        + Len(data.links.pdf) + Len(data.links.image),
         categorizedPages |-> SumLen(data.categories, DOMAIN data.categories)]]

\* processPDFDocuments returns; updateStatistics; saveData starts
PdfsDone ==
    /\ pc = "pdfs"
    /\ pdfIndex >= maxPdfs
    /\ scrapedData' = updateStatistics(scrapedData)
    /\ pc' = PhaseAfter("pdfs")
    /\ UNCHANGED <<options, maxPages, maxDepth, browser, visited, toVisit, pdfUrls, cur,
                   pdfIndex, pdfArray, outcome, sessions, lastReturn, gotoLog, popLog, failed,
                   snapshot>>
    /\ UNCHANGED nonScraperVars
    /\ phaseLog' = Append(phaseLog, "stats")

\* saveData writes the snapshot file
SaveOk ==
    /\ pc = "save"
    /\ snapshot' = scrapedData
    /\ pc' = PhaseAfter("save")
    /\ UNCHANGED <<options, maxPages, maxDepth, browser, visited, toVisit, pdfUrls, scrapedData,
                   cur, pdfIndex, pdfArray, outcome, sessions, lastReturn, gotoLog, popLog,
                   failed>>
    /\ UNCHANGED nonScraperVars
    /\ phaseLog' = Append(phaseLog, "save")

\* saveData throws (mkdir or writeFile fails)
SaveFail ==
    /\ pc = "save"
    /\ pc' = "catch"
    /\ UNCHANGED <<options, maxPages, maxDepth, browser, visited, toVisit, pdfUrls, scrapedData,
                   cur, pdfIndex, pdfArray, outcome, sessions, lastReturn, gotoLog, popLog,
                   failed, snapshot>>
    /\ UNCHANGED nonScraperVars
    /\ UNCHANGED phaseLog

\* a cleanup that leaves the browser as it is
cleanup_KeepOpen(open) == open

\* cleanup(): this.browser.close() when there is a browser; the value is whether
\* this.browser is open afterwards
cleanup(open) == IF open THEN FALSE ELSE open

\* cleanup() on the normal path, then return result
CleanupReturn ==
    /\ pc = "cleanup"
    /\ browser' = cleanup(browser)
    /\ outcome' = "returned"
    /\ pc' = "idle"
    /\ UNCHANGED <<options, maxPages, maxDepth, visited, toVisit, pdfUrls, scrapedData, cur,
                   pdfIndex, pdfArray, sessions, lastReturn, gotoLog, popLog, failed, snapshot>>
    /\ UNCHANGED nonScraperVars
    /\ phaseLog' = Append(phaseLog, "cleanup")

\* the catch block of scrapeComprehensive: cleanup(), then rethrow
CatchRethrow ==
    /\ pc = "catch"
    /\ browser' = cleanup(browser)
    /\ outcome' = "threw"
    /\ pc' = "idle"
    /\ UNCHANGED <<options, maxPages, maxDepth, visited, toVisit, pdfUrls, scrapedData, cur,
                   pdfIndex, pdfArray, sessions, lastReturn, gotoLog, popLog, failed, snapshot>>
    /\ UNCHANGED nonScraperVars
    /\ phaseLog' = Append(phaseLog, "cleanup")

ScraperNext ==
    \/ ScrapeComprehensive
    \/ InitializeOk
    \/ \E launched \in BOOLEAN : InitializeFail(launched)
    \/ LoopPop
    \/ RenderOk
    \/ RenderFail
    \/ LoopExit
    \/ PdfOk
    \/ PdfFail
    \/ PdfsDone
    \/ SaveOk
    \/ SaveFail
    \/ CleanupReturn
    \/ CatchRethrow

(***************************************************************************)
(* EnhancedNITJSRRAGSystem: the link database                              *)
(* A JavaScript Map is a sequence of [key, value] pairs in insertion order:*)
(* set() on an existing key replaces the value in place.                   *)
(***************************************************************************)
MapHas(m, k) == \E i \in 1..Len(m) : m[i].key = k
MapIndex(m, k) == CHOOSE i \in 1..Len(m) : m[i].key = k
MapGet(m, k) == m[MapIndex(m, k)].value
\* a set() that keeps the value of a key the map already has
MapSet_KeepFirst(m, k, v) ==
    IF MapHas(m, k) THEN m ELSE Append(m, [key |-> k, value |-> v])

MapSet(m, k, v) ==
    IF MapHas(m, k) THEN [m EXCEPT ![MapIndex(m, k)].value = v]
    ELSE Append(m, [key |-> k, value |-> v])
MapKeys(m) == {m[i].key : i \in 1..Len(m)}

\* text.toLowerCase().replace(/\s+/g, '_')
Slug(text) == ReplaceWsRuns(ToLowerCase(text))

PdfKey(text) == <<"p", "d", "f", "_">> \o Slug(text)
PageKey(text) == <<"p", "a", "g", "e", "_">> \o Slug(text)

\* the alias key of a PDF link: 'pdf_' + last URL part without '.pdf', lower-cased
PdfAliasKey(url) == <<"p", "d", "f", "_">> \o ToLowerCase(ReplaceFirst(LastPart(url), <<".", "p", "d", "f">>, <<>>))

\* one iteration of scrapedData.links.pdf.forEach
AddPdfLink(db, link) ==
    LET key == PdfKey(link.text)
        db1 == MapSet(db, key,
                      [type |-> "pdf", url |-> link.url, text |-> link.text,
                       title |-> link.title, sourceUrl |-> link.sourceUrl,
                       sourceTitle |-> link.sourceTitle, context |-> link.context])
    IN  MapSet(db1, PdfAliasKey(link.url), MapGet(db1, key))

\* one iteration of scrapedData.links.internal.forEach
AddInternalLink(db, link) ==
    MapSet(db, PageKey(link.text),
           [type |-> "page", url |-> link.url, text |-> link.text, title |-> link.title,
            sourceUrl |-> link.sourceUrl, sourceTitle |-> link.sourceTitle,
            context |-> link.context])

\* one iteration of scrapedData.pages.forEach
AddPage(db, page) ==
    MapSet(db, PageKey(page.title),
           [type |-> "page", url |-> page.url, text |-> page.title, title |-> page.title,
            category |-> page.category, wordCount |-> page.wordCount])

\* one iteration of scrapedData.documents.pdfs.forEach
AddPdfDocument(db, pdf) ==
    MapSet(db, PdfKey(pdf.title),
           [type |-> "pdf_document", url |-> pdf.url, text |-> pdf.title, title |-> pdf.title,
            pages |-> pdf.pages, category |-> pdf.category, sourceUrl |-> pdf.sourceUrl,
            wordCount |-> pdf.wordCount])

RECURSIVE FoldPdfLinks(_, _)
FoldPdfLinks(db, xs) ==
    IF xs = <<>> THEN db ELSE FoldPdfLinks(AddPdfLink(db, Head(xs)), Tail(xs))
RECURSIVE FoldInternalLinks(_, _)
FoldInternalLinks(db, xs) ==
    IF xs = <<>> THEN db ELSE FoldInternalLinks(AddInternalLink(db, Head(xs)), Tail(xs))
RECURSIVE FoldPages(_, _)
FoldPages(db, xs) ==
    IF xs = <<>> THEN db ELSE FoldPages(AddPage(db, Head(xs)), Tail(xs))
RECURSIVE FoldPdfDocuments(_, _)
FoldPdfDocuments(db, xs) ==
    IF xs = <<>> THEN db ELSE FoldPdfDocuments(AddPdfDocument(db, Head(xs)), Tail(xs))

\* buildLinkDatabase(scrapedData), starting from the map the instance holds
buildLinkDatabase(db, data) ==
    FoldPdfDocuments(
        FoldPages(
            FoldInternalLinks(FoldPdfLinks(db, data.links.pdf), data.links.internal),
            data.pages),
        data.documents.pdfs)

(***************************************************************************)
(* EnhancedNITJSRRAGSystem: chunks (documents) of processAndStoreDocuments *)
(***************************************************************************)
chunkSize == 1200
chunkOverlap == 300
minTextLength == 100       \* structuredText.trim().length > 100
metadataTextLimit == 1000  \* doc.text.substring(0, 1000)
batchSize == 5
internalLinkLimit == 50    \* links.internal.slice(0, 50)

Digits == <<"0", "1", "2", "3", "4", "5", "6", "7", "8", "9">>

\* template-literal formatting of a non-negative integer
RECURSIVE Dec(_)
Dec(n) == IF n < 10 THEN <<Digits[n + 1]>> ELSE Dec(n \div 10) \o <<Digits[(n % 10) + 1]>>

\* the category name as a JavaScript string
CategoryText(c) ==
    CASE c = "academics" -> <<"a", "c", "a", "d", "e", "m", "i", "c", "s">> [] c = "admissions" -> <<"a", "d", "m", "i", "s", "s", "i", "o", "n", "s">>
      [] c = "placements" -> <<"p", "l", "a", "c", "e", "m", "e", "n", "t", "s">> [] c = "faculty" -> <<"f", "a", "c", "u", "l", "t", "y">>
      [] c = "students" -> <<"s", "t", "u", "d", "e", "n", "t", "s">> [] c = "research" -> <<"r", "e", "s", "e", "a", "r", "c", "h">>
      [] c = "administration" -> <<"a", "d", "m", "i", "n", "i", "s", "t", "r", "a", "t", "i", "o", "n">> [] c = "news" -> <<"n", "e", "w", "s">>
      [] c = "events" -> <<"e", "v", "e", "n", "t", "s">> [] c = "departments" -> <<"d", "e", "p", "a", "r", "t", "m", "e", "n", "t", "s">>
      [] OTHER -> <<"g", "e", "n", "e", "r", "a", "l">>

\* String.prototype.trim
RECURSIVE TrimStart(_)
TrimStart(s) == IF s # <<>> /\ Head(s) \in WhiteSpace THEN TrimStart(Tail(s)) ELSE s
RECURSIVE TrimEnd(_)
TrimEnd(s) ==
    IF s # <<>> /\ s[Len(s)] \in WhiteSpace THEN TrimEnd(SubSeq(s, 1, Len(s) - 1)) ELSE s
Trim(s) == TrimEnd(TrimStart(s))

\* s.substring(0, n)
Substring0(s, n) == SubSeq(s, 1, Min(n, Len(s)))

\* textSplitter.splitText of the langchain library, configured with chunkSize and
\* chunkOverlap: a text that fits is one chunk, a longer one is cut into windows
RECURSIVE SplitText(_)
SplitText(text) ==
    IF Len(text) = 0 THEN <<>>
    ELSE IF Len(text) <= chunkSize THEN <<text>>
    ELSE <<SubSeq(text, 1, chunkSize)>>
         \o SplitText(SubSeq(text, chunkSize - chunkOverlap + 1, Len(text)))

MapSeq(xs, F(_)) == [i \in 1..Len(xs) |-> F(xs[i])]

HeadingLine(h) == <<"H", "e", "a", "d", "i", "n", "g", " ">> \o Dec(h.level) \o <<":", " ">> \o h.text

\* structuredText of a page
PageStructuredText(page) ==
    Join(FilterNonEmpty(
           << <<"T", "i", "t", "l", "e", ":", " ">> \o page.title,
              <<"U", "R", "L", ":", " ">> \o page.url,
              <<"C", "a", "t", "e", "g", "o", "r", "y", ":", " ">> \o CategoryText(page.category),
              Join(MapSeq(page.headings, HeadingLine), <<"\n">>),
              page.content,
              <<"D", "e", "s", "c", "r", "i", "p", "t", "i", "o", "n", ":", " ">> \o page.metadata.description,
              <<"K", "e", "y", "w", "o", "r", "d", "s", ":", " ">> \o page.metadata.keywords >>),
         <<"\n", "\n">>)

\* an id that leaves out the chunk's position
ChunkId_NoPosition(kind, docId, i) == kind \o <<"-">> \o Dec(docId) \o <<"-", "c", "h", "u", "n", "k">>

ChunkId(kind, docId, i) == kind \o <<"-">> \o Dec(docId) \o <<"-", "c", "h", "u", "n", "k", "-">> \o Dec(i)

\* the documents pushed for one page with counter value docId
PageDocs(page, docId) ==
    LET text == PageStructuredText(page)
        chunks == IF Len(Trim(text)) > minTextLength THEN SplitText(text) ELSE <<>>
    IN  [i \in 1..Len(chunks) |->
            [id |-> ChunkId(<<"p", "a", "g", "e">>, docId, i - 1), text |-> chunks[i],
             metadata |-> [source |-> "webpage", sourceType |-> "page", url |-> page.url,
                           title |-> page.title, chunkIndex |-> i - 1,
                           totalChunks |-> Len(chunks)]]]

PdfStructuredText(pdf) ==
    Join(<< <<"P", "D", "F", " ", "T", "i", "t", "l", "e", ":", " ">> \o pdf.title,
            <<"U", "R", "L", ":", " ">> \o pdf.url,
            <<"C", "a", "t", "e", "g", "o", "r", "y", ":", " ">> \o CategoryText(pdf.category),
            <<"P", "a", "g", "e", "s", ":", " ">> \o Dec(pdf.pages),
            <<"S", "o", "u", "r", "c", "e", " ", "P", "a", "g", "e", ":", " ">> \o (IF pdf.sourceTitle = <<>> THEN <<"U", "n", "k", "n", "o", "w", "n">> ELSE pdf.sourceTitle),
            <<"C", "o", "n", "t", "e", "n", "t", ":", " ">> \o pdf.text >>,
         <<"\n", "\n">>)

\* the documents pushed for one PDF with counter value docId
PdfDocs(pdf, docId) ==
    LET chunks == IF Len(Trim(pdf.text)) > minTextLength
                  THEN SplitText(PdfStructuredText(pdf)) ELSE <<>>
    IN  [i \in 1..Len(chunks) |->
            [id |-> ChunkId(<<"p", "d", "f">>, docId, i - 1), text |-> chunks[i],
             metadata |-> [source |-> "pdf", sourceType |-> "pdf_document", url |-> pdf.url,
                           title |-> pdf.title, chunkIndex |-> i - 1,
                           totalChunks |-> Len(chunks)]]]

\* a page loop that counts only the pages it made chunks of
RECURSIVE PagesDocs_CountEmitted(_, _)
PagesDocs_CountEmitted(pages, docId) ==
    IF pages = <<>> THEN <<>>
    ELSE PageDocs(Head(pages), docId)
         \o PagesDocs_CountEmitted(Tail(pages),
                                   IF PageDocs(Head(pages), docId) = <<>> THEN docId
                                   ELSE docId + 1)

RECURSIVE PagesDocs(_, _)
PagesDocs(pages, docId) ==
    IF pages = <<>> THEN <<>>
    ELSE PageDocs(Head(pages), docId) \o PagesDocs(Tail(pages), docId + 1)

RECURSIVE PdfsDocs(_, _)
PdfsDocs(pdfs, docId) ==
    IF pdfs = <<>> THEN <<>>
    ELSE PdfDocs(Head(pdfs), docId) \o PdfsDocs(Tail(pdfs), docId + 1)

OrText(s, fallback) == IF s = <<>> THEN fallback ELSE s

PdfLinkLine(link) ==
    <<"*", " ">> \o link.text \o <<" ", "-", " ">> \o link.url \o <<" ", "(", "F", "o", "u", "n", "d", " ", "o", "n", ":", " ">> \o link.sourceTitle \o <<")">>
InternalLinkLine(link) == <<"*", " ">> \o link.text \o <<" ", "-", " ">> \o link.url

\* linkContent of the links-directory document
LinkContent(data) ==
    Join(<< <<"P", "D", "F", " ", "D", "o", "c", "u", "m", "e", "n", "t", "s", " ", "A", "v", "a", "i", "l", "a", "b", "l", "e", ":">>,
            OrText(Join(MapSeq(data.links.pdf, PdfLinkLine), <<"\n">>), <<"N", "o", " ", "P", "D", "F", "s", " ", "f", "o", "u", "n", "d">>),
            <<"\n">> \o <<"I", "n", "t", "e", "r", "n", "a", "l", " ", "P", "a", "g", "e", "s", ":">>,
            OrText(Join(MapSeq(Substring0(data.links.internal, internalLinkLimit),
                               InternalLinkLine), <<"\n">>),
                   <<"N", "o", " ", "i", "n", "t", "e", "r", "n", "a", "l", " ", "l", "i", "n", "k", "s", " ", "f", "o", "u", "n", "d">>) >>,
         <<"\n">>)

LinksDocs(data) ==
    IF Len(LinkContent(data)) > minTextLength
    THEN << [id |-> <<"l", "i", "n", "k", "s", "-", "d", "i", "r", "e", "c", "t", "o", "r", "y">>, text |-> LinkContent(data),
             metadata |-> [source |-> "links", sourceType |-> "link_directory", url |-> <<>>,
                           title |-> <<>>, chunkIndex |-> 0, totalChunks |-> 1]] >>
    ELSE <<>>

CategoryLine(data, c) ==
    <<"*", " ">> \o CategoryText(c) \o <<":", " ">> \o Dec(Len(data.categories[c])) \o <<" ", "p", "a", "g", "e", "s">>
PdfSummaryLine(pdf) ==
    <<"*", " ">> \o pdf.title \o <<" ", "(">> \o Dec(pdf.pages) \o <<" ", "p", "a", "g", "e", "s", ",", " ">> \o Dec(pdf.wordCount)
    \o <<" ", "w", "o", "r", "d", "s", ")", " ", "-", " ">> \o CategoryText(pdf.category)

\* statsContent of the statistics document
StatsContent(data) ==
    Join(<< <<"N", "I", "T", " ", "J", "a", "m", "s", "h", "e", "d", "p", "u", "r", " ", "W", "e", "b", "s", "i", "t", "e", " ", "S", "t", "a", "t", "i", "s", "t", "i", "c", "s", " ", "a", "n", "d", " ", "O", "v", "e", "r", "v", "i", "e", "w", ":">>,
            <<"T", "o", "t", "a", "l", " ", "P", "a", "g", "e", "s", " ", "S", "c", "r", "a", "p", "e", "d", ":", " ">> \o Dec(data.statistics.totalPages),
            <<"T", "o", "t", "a", "l", " ", "P", "D", "F", " ", "D", "o", "c", "u", "m", "e", "n", "t", "s", ":", " ">> \o Dec(data.statistics.totalPDFs),
            <<"T", "o", "t", "a", "l", " ", "L", "i", "n", "k", "s", " ", "F", "o", "u", "n", "d", ":", " ">> \o Dec(data.statistics.totalLinks),
            <<"C", "a", "t", "e", "g", "o", "r", "i", "e", "s", " ", "B", "r", "e", "a", "k", "d", "o", "w", "n", ":">>,
            Join([i \in 1..Len(Categories) |-> CategoryLine(data, Categories[i])], <<"\n">>),
            <<"\n">> \o <<"A", "v", "a", "i", "l", "a", "b", "l", "e", " ", "P", "D", "F", " ", "D", "o", "c", "u", "m", "e", "n", "t", "s", ":">>,
            OrText(Join(MapSeq(data.documents.pdfs, PdfSummaryLine), <<"\n">>),
                   <<"N", "o", " ", "P", "D", "F", "s", " ", "p", "r", "o", "c", "e", "s", "s", "e", "d">>) >>,
         <<"\n">>)

StatsDocs(data) ==
    IF Len(StatsContent(data)) > minTextLength
    THEN << [id |-> <<"s", "t", "a", "t", "i", "s", "t", "i", "c", "s", "-", "e", "n", "h", "a", "n", "c", "e", "d">>, text |-> StatsContent(data),
             metadata |-> [source |-> "statistics", sourceType |-> "summary", url |-> <<>>,
                           title |-> <<>>, chunkIndex |-> 0, totalChunks |-> 1]] >>
    ELSE <<>>

\* a docId kept from the call before
DocIdAtCall_Carried(previous) == previous

\* let docId = 0: the counter is a local of the call, whatever it was before
DocIdAtCall(previous) == 0

\* docId after the two loops: docId++ once per page and once per PDF
DocIdAfter(docId, data) == docId + Len(data.pages) + Len(data.documents.pdfs)

\* the documents array built with the counter starting at docId
BuildDocumentsFrom(docId, data) ==
    PagesDocs(data.pages, docId) \o PdfsDocs(data.documents.pdfs, docId + Len(data.pages))
    \o LinksDocs(data) \o StatsDocs(data)

\* the documents array of processAndStoreDocuments
BuildDocuments(data) == BuildDocumentsFrom(DocIdAtCall(0), data)

\* batches.length
NumBatches(docs) == (Len(docs) + batchSize - 1) \div batchSize

\* batches[b], b counted from 0
BatchOf(docs, b) == SubSeq(docs, b * batchSize + 1, Min((b + 1) * batchSize, Len(docs)))

\* the vectors prepared for a batch
VectorOf(doc) ==
    [id |-> doc.id,
     metadata |-> [text |-> Substring0(doc.text, metadataTextLimit),
                   source |-> doc.metadata.source, sourceType |-> doc.metadata.sourceType,
                   url |-> doc.metadata.url, title |-> doc.metadata.title]]

\* index.upsert(vectors) on the store, a map from id to record
RECURSIVE Upsert(_, _)
Upsert(store, docs) ==
    IF docs = <<>> THEN store
    ELSE Upsert(MapSet(store, Head(docs).id, VectorOf(Head(docs)).metadata), Tail(docs))

(***************************************************************************)
(* Snapshots handed to processAndStoreDocuments (read back from the file   *)
(* saveData wrote)                                                         *)
(***************************************************************************)
MaxSnapPages == 10  \* pages of the largest snapshot
MaxCalls == 2       \* RAG calls (processAndStoreDocuments, chat, clearIndex) per behaviour
MaxMatches == 2     \* matches the vector store returns to one query (at most topK)

topK == 8
linkScore == 800    \* the score 0.8 of a link source, in thousandths

LinkData(url, text, sourceUrl, sourceTitle) ==
    [url |-> url, text |-> text, title |-> <<>>, sourceUrl |-> sourceUrl,
     sourceTitle |-> sourceTitle, context |-> text]

\* a page as scrapePage stores it
GenPage(i) ==
    ProcessedPage(baseUrl \o <<"/", "p">> \o Dec(i), 1,
                  [title |-> <<"P", "a", "g", "e", " ">> \o Dec(i), headings |-> <<>>,
                   content |-> <<<<"I", "n", "f", "o", "r", "m", "a", "t", "i", "o", "n", " ", "a", "b", "o", "u", "t", " ", "t", "o", "p", "i", "c", " ">> \o Dec(i)>>,
                   description |-> <<>>, keywords |-> <<>>, links |-> <<>>])

MakeSnapshot(pages, pdfLinks, internalLinks, pdfs) ==
    updateStatistics(
        [pages |-> pages,
         documents |-> [pdfs |-> pdfs],
         links |-> [internal |-> internalLinks, external |-> <<>>, pdf |-> pdfLinks,
                    image |-> <<>>],
         categories |-> [c \in Range(Categories) |->
                            LET InC(pg) == pg.category = c IN SelectSeq(pages, InC)],
         statistics |-> EmptyScrapedData.statistics])

U_report == <<"h", "t", "t", "p", "s", ":", "/", "/", "n", "i", "t", "j", "s", "r", ".", "a", "c", ".", "i", "n", "/", "r", "e", "p", "o", "r", "t", "s", "/", "p", "l", "a", "c", "e", "m", "e", "n", "t", "_", "2", "0", "2", "3", ".", "p", "d", "f">>
U_fees == <<"h", "t", "t", "p", "s", ":", "/", "/", "n", "i", "t", "j", "s", "r", ".", "a", "c", ".", "i", "n", "/", "d", "o", "c", "s", "/", "F", "e", "e", "s", ".", "P", "D", "F">>
T_report == <<"P", "l", "a", "c", "e", "m", "e", "n", "t", " ", "R", "e", "p", "o", "r", "t", " ", "2", "0", "2", "3">>

HomePage == ProcessedPage(U_home, 0, SitePage(U_home))
PlacementsPage == ProcessedPage(U_placements, 0, SitePage(U_placements))

ReportLink == LinkData(U_report, T_report, U_placements, <<"P", "l", "a", "c", "e", "m", "e", "n", "t", "s">>)

\* 1: a PDF link and an internal link, the PDF not ingested
SnapLinks ==
    MakeSnapshot(<<HomePage>>, <<ReportLink>>,
                 <<LinkData(U_cse, <<"C", "S", "E">>, U_home, <<"N", "I", "T", " ", "J", "a", "m", "s", "h", "e", "d", "p", "u", "r">>)>>, <<>>)
\* 2: the same with the PDF ingested by processPDFDocuments
SnapLinksIngested ==
    MakeSnapshot(<<HomePage>>, <<ReportLink>>,
                 <<LinkData(U_cse, <<"C", "S", "E">>, U_home, <<"N", "I", "T", " ", "J", "a", "m", "s", "h", "e", "d", "p", "u", "r">>)>>,
                 <<PdfDoc(U_report, <<ReportLink>>)>>)
\* 3: a later crawl that found other links
SnapOther ==
    MakeSnapshot(<<PlacementsPage>>,
                 <<LinkData(U_fees, <<"F", "e", "e", " ", " ", "S", "t", "r", "u", "c", "t", "u", "r", "e">>, U_placements, <<"P", "l", "a", "c", "e", "m", "e", "n", "t", "s">>)>>,
                 <<LinkData(U_people, <<"P", "e", "o", "p", "l", "e">>, U_cse, <<"C", "S", "E">>)>>, <<>>)
\* 4: many pages, so that the chunks fill several batches
SnapBig == MakeSnapshot([i \in 1..MaxSnapPages |-> GenPage(i)], <<>>, <<>>, <<>>)

Snapshots == <<SnapLinks, SnapLinksIngested, SnapOther, SnapBig>>

\* const documents, for each snapshot
DocumentsOf == [d \in 1..Len(Snapshots) |-> BuildDocuments(Snapshots[d])]
documents == IF dataRef = 0 THEN <<>> ELSE DocumentsOf[dataRef]

Questions == {<<"p", "l", "a", "c", "e", "m", "e", "n", "t", " ", "r", "e", "p", "o", "r", "t", " ", "2", "0", "2", "3", " ", "p", "d", "f">>, <<"c", "s", "e">>}

cannedAnswer == "I don't have specific information about that topic"
generatedAnswer == "response.text()"

(***************************************************************************)
(* EnhancedNITJSRRAGSystem: processAndStoreDocuments                       *)
(***************************************************************************)
NoResult == [kind |-> "none"]
Threw == [kind |-> "threw"]

RagInit ==
    /\ isInitialized = FALSE
    /\ linkDatabase = <<>>
    /\ index = <<>>
    /\ ragPc = "idle"
    /\ dataRef = 0
    /\ batchIndex = 0
    /\ procResult = NoResult
    /\ question = <<>>
    /\ relevantDocs = <<>>
    /\ chatResult = NoResult
    /\ calls = 0
    /\ batchLog = <<>>
    /\ upserted = {}
    /\ chatLog = <<>>
    /\ callLog = <<>>
    /\ rejected = {}
    /\ chatEntry = [isInitialized |-> FALSE, linkDatabase |-> <<>>]

Event(ev, b) == [ev |-> ev, batch |-> b]

Called(log, call) == Append(log, [call |-> call, phase |-> "called"])
\* the call log once the running call has ended with `result`, if it has
Ended(log, call, result) ==
    IF result.kind = "none" THEN log ELSE Append(log, [call |-> call, phase |-> result.kind])
Returned == [kind |-> "returned"]

\* the value processAndStoreDocuments returns after the batch loop
StoreResult(docs, stored) == [kind |-> "returned", success |-> TRUE, totalDocuments |-> Len(docs)]

\* a batch loop whose catch block rethrows
AfterBatchFailure_Abort(b, docs, stored) ==
    [pc |-> "idle", batchIndex |-> b + 1, result |-> Threw]

\* where the batch loop goes after the catch block of batch b handled a failure:
\* the error is logged and the for loop continues
AfterBatchFailure(b, docs, stored) ==
    IF b + 1 < NumBatches(docs)
    THEN [pc |-> "embed", batchIndex |-> b + 1, result |-> NoResult]
    ELSE [pc |-> "idle", batchIndex |-> b + 1, result |-> StoreResult(docs, stored)]

\* where the batch loop goes after batch b was upserted: the delay unless b is the last
AfterBatchStored(b, docs, stored) ==
    IF b < NumBatches(docs) - 1
    THEN [pc |-> "delay", batchIndex |-> b, result |-> NoResult]
    ELSE [pc |-> "idle", batchIndex |-> b + 1, result |-> StoreResult(docs, stored)]

\* where the call goes once the documents are prepared
AfterPrepare(docs) ==
    IF NumBatches(docs) > 0
    THEN [pc |-> "embed", batchIndex |-> 0, result |-> NoResult]
    ELSE [pc |-> "idle", batchIndex |-> 0, result |-> StoreResult(docs, {})]

\* processAndStoreDocuments(scrapedData) is called (POST /scrape, initializeSystem)
ProcessAndStoreDocuments(d) ==
    /\ ragPc = "idle"
    /\ calls < MaxCalls
    /\ calls' = calls + 1
    /\ dataRef' = d
    /\ batchIndex' = 0
    /\ procResult' = NoResult
    /\ batchLog' = <<>>
    /\ upserted' = {}
    /\ ragPc' = IF isInitialized THEN "prepare" ELSE "procInit"
    /\ UNCHANGED <<isInitialized, linkDatabase, index, question, relevantDocs, chatResult,
                   chatLog, chatEntry>>
    /\ UNCHANGED nonRagVars
    /\ callLog' = Called(callLog, "process")
    /\ rejected' = {}

\* await this.initialize() returns
ProcInitOk ==
    /\ ragPc = "procInit"
    /\ isInitialized' = TRUE
    /\ ragPc' = "prepare"
    /\ UNCHANGED <<linkDatabase, index, dataRef, batchIndex, procResult, question,
                   relevantDocs, chatResult, calls, batchLog, upserted, chatLog, chatEntry>>
    /\ UNCHANGED nonRagVars
    /\ UNCHANGED callLog
    /\ UNCHANGED rejected

\* await this.initialize() throws: the call throws
ProcInitFail ==
    /\ ragPc = "procInit"
    /\ procResult' = Threw
    /\ ragPc' = "idle"
    /\ UNCHANGED <<isInitialized, linkDatabase, index, dataRef, batchIndex, question,
                   relevantDocs, chatResult, calls, batchLog, upserted, chatLog, chatEntry>>
    /\ UNCHANGED nonRagVars
    /\ callLog' = Ended(callLog, "process", procResult')
    /\ UNCHANGED rejected

\* buildLinkDatabase, then the documents and the batches are prepared
Prepare ==
    /\ ragPc = "prepare"
    /\ linkDatabase' = buildLinkDatabase(linkDatabase, Snapshots[dataRef])
    /\ LET n == AfterPrepare(documents)
       IN  /\ ragPc' = n.pc
           /\ batchIndex' = n.batchIndex
           /\ procResult' = n.result
    /\ UNCHANGED <<isInitialized, index, dataRef, question, relevantDocs, chatResult, calls,
                   batchLog, upserted, chatLog, chatEntry>>
    /\ UNCHANGED nonRagVars
    /\ callLog' = Ended(callLog, "process", procResult')
    /\ UNCHANGED rejected

\* buildLinkDatabase, then textSplitter.splitText throws: the outer catch rethrows
PrepareFail ==
    /\ ragPc = "prepare"
    /\ linkDatabase' = buildLinkDatabase(linkDatabase, Snapshots[dataRef])
    /\ procResult' = Threw
    /\ ragPc' = "idle"
    /\ UNCHANGED <<isInitialized, index, dataRef, batchIndex, question, relevantDocs,
                   chatResult, calls, batchLog, upserted, chatLog, chatEntry>>
    /\ UNCHANGED nonRagVars
    /\ callLog' = Ended(callLog, "process", procResult')
    /\ UNCHANGED rejected

\* the positions of a batch at which embedQuery may reject
EmbedRejections(batch) == {{}, {1}, {Len(batch)}, 1..Len(batch)}

\* a Promise.all that waits for the calls and drops the rejections
PromiseAll_AllSettled(rej) == TRUE

\* await Promise.all(batch.map(embedQuery)) returns (TRUE) or throws
PromiseAll(rej) == rej = {}

\* every embedQuery call of the batch resolves
EmbedOk(rej) ==
    /\ ragPc = "embed"
    /\ PromiseAll(rej)
    /\ batchLog' = Append(batchLog, Event("embed", batchIndex))
    /\ ragPc' = "upsert"
    /\ UNCHANGED <<isInitialized, linkDatabase, index, dataRef, batchIndex, procResult,
                   question, relevantDocs, chatResult, calls, upserted, chatLog, chatEntry>>
    /\ UNCHANGED nonRagVars
    /\ UNCHANGED callLog
    /\ rejected' = rej

\* an embedQuery call of the batch rejects: the catch block of the batch
EmbedFail(rej) ==
    /\ ragPc = "embed"
    /\ ~PromiseAll(rej)
    /\ batchLog' = batchLog \o <<Event("embed", batchIndex), Event("embedFailed", batchIndex)>>
    /\ LET n == AfterBatchFailure(batchIndex, documents, upserted)
       IN  /\ ragPc' = n.pc
           /\ batchIndex' = n.batchIndex
           /\ procResult' = n.result
    /\ UNCHANGED <<isInitialized, linkDatabase, index, dataRef, question, relevantDocs,
                   chatResult, calls, upserted, chatLog, chatEntry>>
    /\ UNCHANGED nonRagVars
    /\ callLog' = Ended(callLog, "process", procResult')
    /\ rejected' = rej

\* index.upsert(vectors) resolves
UpsertOk ==
    /\ ragPc = "upsert"
    /\ index' = Upsert(index, BatchOf(documents, batchIndex))
    /\ upserted' = upserted \cup {doc.id : doc \in Range(BatchOf(documents, batchIndex))}
    /\ batchLog' = Append(batchLog, Event("stored", batchIndex))
    /\ LET n == AfterBatchStored(batchIndex, documents, upserted')
       IN  /\ ragPc' = n.pc
           /\ batchIndex' = n.batchIndex
           /\ procResult' = n.result
    /\ UNCHANGED <<isInitialized, linkDatabase, dataRef, question, relevantDocs, chatResult,
                   calls, chatLog, chatEntry>>
    /\ UNCHANGED nonRagVars
    /\ callLog' = Ended(callLog, "process", procResult')
    /\ UNCHANGED rejected

\* index.upsert(vectors) rejects: the catch block of the batch
UpsertFail ==
    /\ ragPc = "upsert"
    /\ batchLog' = Append(batchLog, Event("upsertFailed", batchIndex))
    /\ LET n == AfterBatchFailure(batchIndex, documents, upserted)
       IN  /\ ragPc' = n.pc
           /\ batchIndex' = n.batchIndex
           /\ procResult' = n.result
    /\ UNCHANGED <<isInitialized, linkDatabase, index, dataRef, question, relevantDocs,
                   chatResult, calls, upserted, chatLog, chatEntry>>
    /\ UNCHANGED nonRagVars
    /\ callLog' = Ended(callLog, "process", procResult')
    /\ UNCHANGED rejected

\* the 2000 ms timer between two batches fires
DelayElapsed ==
    /\ ragPc = "delay"
    /\ batchLog' = Append(batchLog, Event("delay", batchIndex))
    /\ batchIndex' = batchIndex + 1
    /\ ragPc' = "embed"
    /\ UNCHANGED <<isInitialized, linkDatabase, index, dataRef, procResult, question,
                   relevantDocs, chatResult, calls, upserted, chatLog, chatEntry>>
    /\ UNCHANGED nonRagVars
    /\ UNCHANGED callLog
    /\ UNCHANGED rejected

(***************************************************************************)
(* EnhancedNITJSRRAGSystem: chat                                           *)
(***************************************************************************)
maxRelevantLinks == 5

LinkMatchesQuestion(link, questionLower) ==
    \/ Includes(ToLowerCase(link.text), questionLower)
    \/ Includes(questionLower, ToLowerCase(link.text))

\* the first loop of findRelevantLinks, over the entries from position i
RECURSIVE PdfLinkSearch(_, _, _, _, _)
PdfLinkSearch(db, i, questionLower, docs, found) ==
    IF i > Len(db) THEN found
    ELSE LET link == db[i].value
             hit == /\ StartsWith(db[i].key, <<"p", "d", "f", "_">>)
                    /\ \/ LinkMatchesQuestion(link, questionLower)
                       \/ \E j \in 1..Len(docs) :
                              Includes(ToLowerCase(docs[j].text), ToLowerCase(link.text))
         IN  PdfLinkSearch(db, i + 1, questionLower, docs,
                           IF hit THEN Append(found, link) ELSE found)

\* the second loop of findRelevantLinks, over the entries from position i
RECURSIVE PageLinkSearch(_, _, _, _)
PageLinkSearch(db, i, questionLower, found) ==
    IF i > Len(db) THEN found
    ELSE LET link == db[i].value
             hit == /\ \/ LinkMatchesQuestion(link, questionLower)
                       \/ /\ "category" \in DOMAIN link
                          /\ Includes(questionLower, CategoryText(link.category))
                    /\ Len(found) < maxRelevantLinks
         IN  PageLinkSearch(db, i + 1, questionLower,
                            IF hit THEN Append(found, link) ELSE found)

findRelevantLinks(q, docs, db) ==
    LET questionLower == ToLowerCase(q)
        pdfHits == IF Includes(questionLower, <<"p", "d", "f">>) \/ Includes(questionLower, <<"d", "o", "c", "u", "m", "e", "n", "t">>)
                   THEN PdfLinkSearch(db, 1, questionLower, docs, <<>>)
                   ELSE <<>>
    IN  PageLinkSearch(db, 1, questionLower, pdfHits)

\* the matches index.query returns when it finds k of them, mapped as queryDocuments does;
\* scores are in thousandths, best first
MatchesOf(store, k) ==
    [i \in 1..k |-> [text |-> store[i].value.text, score |-> 900 - 50 * (i - 1),
                     metadata |-> store[i].value]]

DocSource(doc) ==
    [text |-> Substring0(doc.text, 200) \o <<".", ".", ".">>, source |-> doc.metadata.source,
     sourceType |-> doc.metadata.sourceType, url |-> doc.metadata.url,
     title |-> doc.metadata.title, score |-> doc.score]

LinkSource(link) ==
    [text |-> IF "context" \in DOMAIN link /\ link.context # <<>> THEN link.context
              ELSE link.text,
     source |-> link.type, sourceType |-> "link", url |-> link.url, title |-> link.text,
     score |-> linkScore]

\* the label of a link in the prompt
LinkLabel(link) == IF link.type = "pdf" THEN <<"(", "P", "D", "F", " ", "D", "o", "c", "u", "m", "e", "n", "t", ")">> ELSE <<"(", "W", "e", "b", " ", "P", "a", "g", "e", ")">>

\* linksContext of generateResponse
linksContext(links) ==
    LET LinkLine(link) == <<"*", " ">> \o link.text \o <<":", " ">> \o link.url \o <<" ">> \o LinkLabel(link)
    IN  IF Len(links) > 0
        THEN <<"\n", "\n">> \o <<"R", "e", "l", "e", "v", "a", "n", "t", " ", "L", "i", "n", "k", "s", " ", "A", "v", "a", "i", "l", "a", "b", "l", "e", ":">> \o <<"\n">>
             \o Join(MapSeq(links, LinkLine), <<"\n">>)
        ELSE <<>>

\* what chat returns when queryDocuments found nothing
CannedResponse ==
    [kind |-> "returned", answer |-> cannedAnswer, sources |-> <<>>, relevantLinks |-> <<>>,
     confidence |-> 0]

\* a generateResponse that lists the links before the documents
GeneratedResponse_LinksFirst(q, docs, db) ==
    LET links == findRelevantLinks(q, docs, db)
    IN  [kind |-> "returned", answer |-> generatedAnswer,
         sources |-> MapSeq(links, LinkSource) \o MapSeq(docs, DocSource),
         relevantLinks |-> links,
         confidence |-> IF Len(docs) > 0 THEN docs[1].score ELSE 0]

\* what generateResponse returns
GeneratedResponse(q, docs, db) ==
    LET links == findRelevantLinks(q, docs, db)
    IN  [kind |-> "returned", answer |-> generatedAnswer,
         sources |-> MapSeq(docs, DocSource) \o MapSeq(links, LinkSource),
         relevantLinks |-> links,
         confidence |-> IF Len(docs) > 0 THEN docs[1].score ELSE 0]

\* a chat that always goes on to generateResponse
AfterQuery_AlwaysGenerate(docs) == [pc |-> "generate", result |-> NoResult]

\* chat, after queryDocuments returned docs: the canned answer or generateResponse
AfterQuery(docs) ==
    IF Len(docs) = 0
    THEN [pc |-> "idle", result |-> CannedResponse]
    ELSE [pc |-> "generate", result |-> NoResult]

\* a chat whose catch block answers with the canned response
ChatCatch_Fallback == [pc |-> "idle", result |-> CannedResponse]

\* the catch blocks of queryDocuments, generateResponse and chat: log and rethrow
ChatCatch == [pc |-> "idle", result |-> Threw]

\* chat(question) is called
Chat(q) ==
    /\ ragPc = "idle"
    /\ calls < MaxCalls
    /\ calls' = calls + 1
    /\ question' = q
    /\ relevantDocs' = <<>>
    /\ chatResult' = NoResult
    /\ chatLog' = <<>>
    /\ chatEntry' = [isInitialized |-> isInitialized, linkDatabase |-> linkDatabase]
    /\ ragPc' = IF isInitialized THEN "chatEmbed" ELSE "chatInit"
    /\ UNCHANGED <<isInitialized, linkDatabase, index, dataRef, batchIndex, procResult,
                   batchLog, upserted>>
    /\ UNCHANGED nonRagVars
    /\ callLog' = Called(callLog, "chat")
    /\ UNCHANGED rejected

\* queryDocuments: await this.initialize() returns
ChatInitOk ==
    /\ ragPc = "chatInit"
    /\ isInitialized' = TRUE
    /\ chatLog' = Append(chatLog, "initialize")
    /\ ragPc' = "chatEmbed"
    /\ UNCHANGED <<linkDatabase, index, dataRef, batchIndex, procResult, question,
                   relevantDocs, chatResult, calls, batchLog, upserted, chatEntry>>
    /\ UNCHANGED nonRagVars
    /\ UNCHANGED callLog
    /\ UNCHANGED rejected

\* queryDocuments: await this.initialize() throws
ChatInitFail ==
    /\ ragPc = "chatInit"
    /\ chatLog' = Append(chatLog, "initialize")
    /\ ragPc' = ChatCatch.pc
    /\ chatResult' = ChatCatch.result
    /\ UNCHANGED <<isInitialized, linkDatabase, index, dataRef, batchIndex, procResult,
                   question, relevantDocs, calls, batchLog, upserted, chatEntry>>
    /\ UNCHANGED nonRagVars
    /\ callLog' = Ended(callLog, "chat", chatResult')
    /\ UNCHANGED rejected

\* embeddings.embedQuery(question) returns
ChatEmbedOk ==
    /\ ragPc = "chatEmbed"
    /\ chatLog' = Append(chatLog, "embed")
    /\ ragPc' = "chatQuery"
    /\ UNCHANGED <<isInitialized, linkDatabase, index, dataRef, batchIndex, procResult,
                   question, relevantDocs, chatResult, calls, batchLog, upserted, chatEntry>>
    /\ UNCHANGED nonRagVars
    /\ UNCHANGED callLog
    /\ UNCHANGED rejected

\* an external call of chat throws: embedQuery, index.query or generateContent
ChatCallFail(at, call) ==
    /\ ragPc = at
    /\ chatLog' = chatLog \o <<call, "threw">>
    /\ ragPc' = ChatCatch.pc
    /\ chatResult' = ChatCatch.result
    /\ UNCHANGED <<isInitialized, linkDatabase, index, dataRef, batchIndex, procResult,
                   question, relevantDocs, calls, batchLog, upserted, chatEntry>>
    /\ UNCHANGED nonRagVars
    /\ callLog' = Ended(callLog, "chat", chatResult')
    /\ UNCHANGED rejected

ChatEmbedFail == ChatCallFail("chatEmbed", "embed")
ChatQueryFail == ChatCallFail("chatQuery", "query")
ChatGenerateFail == ChatCallFail("generate", "generate")

\* index.query returns k matches
ChatQueryOk(k) ==
    /\ ragPc = "chatQuery"
    /\ k <= Len(index)
    /\ chatLog' = Append(chatLog, "query")
    /\ relevantDocs' = MatchesOf(index, k)
    /\ LET n == AfterQuery(relevantDocs')
       IN  /\ ragPc' = n.pc
           /\ chatResult' = n.result
    /\ UNCHANGED <<isInitialized, linkDatabase, index, dataRef, batchIndex, procResult,
                   question, calls, batchLog, upserted, chatEntry>>
    /\ UNCHANGED nonRagVars
    /\ callLog' = Ended(callLog, "chat", chatResult')
    /\ UNCHANGED rejected

\* chatModel.generateContent(prompt) returns
ChatGenerateOk ==
    /\ ragPc = "generate"
    /\ chatLog' = Append(chatLog, "generate")
    /\ chatResult' = GeneratedResponse(question, relevantDocs, linkDatabase)
    /\ ragPc' = "idle"
    /\ UNCHANGED <<isInitialized, linkDatabase, index, dataRef, batchIndex, procResult,
                   question, relevantDocs, calls, batchLog, upserted, chatEntry>>
    /\ UNCHANGED nonRagVars
    /\ callLog' = Ended(callLog, "chat", chatResult')
    /\ UNCHANGED rejected

(***************************************************************************)
(* EnhancedNITJSRRAGSystem: clearIndex (POST /scrape with force)           *)
(***************************************************************************)
ClearIndex ==
    /\ ragPc = "idle"
    /\ calls < MaxCalls
    /\ calls' = calls + 1
    /\ ragPc' = "deleteAll"
    /\ UNCHANGED <<isInitialized, linkDatabase, index, dataRef, batchIndex, procResult,
                   question, relevantDocs, chatResult, batchLog, upserted, chatLog, chatEntry>>
    /\ UNCHANGED nonRagVars
    /\ callLog' = Called(callLog, "clear")
    /\ UNCHANGED rejected

\* a clearIndex that clears the link database whatever deleteAll did
AfterDeleteAll_AlwaysClear(ok, db) == <<>>

\* this.linkDatabase after the try block of clearIndex: linkDatabase.clear() comes
\* after the await, so a rejection skips it
AfterDeleteAll(ok, db) == IF ok THEN <<>> ELSE db

\* index.deleteAll() resolves; this.index is set by initialize()
DeleteAllOk ==
    /\ ragPc = "deleteAll"
    /\ isInitialized
    /\ index' = <<>>
    /\ linkDatabase' = AfterDeleteAll(TRUE, linkDatabase)
    /\ ragPc' = "idle"
    /\ UNCHANGED <<isInitialized, dataRef, batchIndex, procResult, question, relevantDocs,
                   chatResult, calls, batchLog, upserted, chatLog, chatEntry>>
    /\ UNCHANGED nonRagVars
    /\ callLog' = Ended(callLog, "clear", Returned)
    /\ UNCHANGED rejected

\* index.deleteAll() rejects: clearIndex rethrows
DeleteAllFail ==
    /\ ragPc = "deleteAll"
    /\ ragPc' = "idle"
    /\ linkDatabase' = AfterDeleteAll(FALSE, linkDatabase)
    /\ UNCHANGED <<isInitialized, index, dataRef, batchIndex, procResult,
                   question, relevantDocs, chatResult, calls, batchLog, upserted, chatLog,
                   chatEntry>>
    /\ UNCHANGED nonRagVars
    /\ callLog' = Ended(callLog, "clear", Threw)
    /\ UNCHANGED rejected

RagNext ==
    \/ \E d \in 1..Len(Snapshots) : ProcessAndStoreDocuments(d)
    \/ ProcInitOk
    \/ ProcInitFail
    \/ Prepare
    \/ PrepareFail
    \/ \E rej \in EmbedRejections(BatchOf(documents, batchIndex)) : EmbedOk(rej)
    \/ \E rej \in EmbedRejections(BatchOf(documents, batchIndex)) : EmbedFail(rej)
    \/ UpsertOk
    \/ UpsertFail
    \/ DelayElapsed
    \/ \E q \in Questions : Chat(q)
    \/ ChatInitOk
    \/ ChatInitFail
    \/ ChatEmbedOk
    \/ ChatEmbedFail
    \/ \E k \in 0..Min(topK, MaxMatches) : ChatQueryOk(k)
    \/ ChatQueryFail
    \/ ChatGenerateOk
    \/ ChatGenerateFail
    \/ ClearIndex
    \/ DeleteAllOk
    \/ DeleteAllFail

(***************************************************************************)
(* Single calls of the functions of the scrapers and of findRelevantLinks, *)
(* on arguments from small sets                                            *)
(***************************************************************************)
U_both == <<"h", "t", "t", "p", "s", ":", "/", "/", "n", "i", "t", "j", "s", "r", ".", "a", "c", ".", "i", "n", "/", "P", "l", "a", "c", "e", "m", "e", "n", "t", "/", "A", "d", "m", "i", "s", "s", "i", "o", "n", "-", "N", "o", "t", "i", "c", "e">>
U_lookalike == <<"h", "t", "t", "p", "s", ":", "/", "/", "n", "i", "t", "j", "s", "r", ".", "a", "c", ".", "i", "n", ".", "e", "x", "a", "m", "p", "l", "e", ".", "c", "o", "m", "/">>
U_suffix == <<"h", "t", "t", "p", "s", ":", "/", "/", "n", "o", "t", "n", "i", "t", "j", "s", "r", ".", "a", "c", ".", "i", "n", "/", "p", "a", "g", "e">>
U_subdomain == <<"h", "t", "t", "p", "s", ":", "/", "/", "w", "w", "w", ".", "n", "i", "t", "j", "s", "r", ".", "a", "c", ".", "i", "n", "/", "A", "c", "a", "d", "e", "m", "i", "c", "/", "S", "y", "l", "l", "a", "b", "u", "s">>
U_query == <<"h", "t", "t", "p", "s", ":", "/", "/", "e", "x", "a", "m", "p", "l", "e", ".", "c", "o", "m", "/", "?", "r", "e", "f", "=", "n", "i", "t", "j", "s", "r", ".", "a", "c", ".", "i", "n">>
U_apdf == <<"h", "t", "t", "p", "s", ":", "/", "/", "n", "i", "t", "j", "s", "r", ".", "a", "c", ".", "i", "n", "/", "a", ".", "p", "d", "f">>

ProbeUrls ==
    {U_home, U_placements, U_cse, U_people, U_pdf1, U_apdf, U_both, U_lookalike, U_suffix,
     U_subdomain, U_query, <<"/", "S", "t", "u", "d", "e", "n", "t", "s", "/", "H", "o", "s", "t", "e", "l">>, <<"m", "a", "i", "l", "t", "o", ":", "d", "i", "r", "e", "c", "t", "o", "r", "@", "n", "i", "t", "j", "s", "r", ".", "a", "c", ".", "i", "n">>,
     <<"h", "t", "t", "p", "s", ":", "/", "/", "w", "w", "w", ".", "y", "o", "u", "t", "u", "b", "e", ".", "c", "o", "m", "/", "n", "i", "t", "j", "s", "r">>, <<"h", "t", "t", "p", "s", ":", "/", "/", "n", "i", "t", "j", "s", "r", ".", "a", "c", ".", "i", "n", "/", "i", "m", "g", "/", "l", "o", "g", "o", ".", "p", "n", "g">>, <<"h", "t", "t", "p", ":", "/", "/">>,
     <<"h", "t", "t", "p", "s", ":", "/", "/", "n", "i", "t", "j", "s", "r", ".", "a", "c", ".", "i", "n", "/", "R", "e", "s", "e", "a", "r", "c", "h", "/", "P", "h", "D">>, <<"h", "t", "t", "p", "s", ":", "/", "/", "n", "i", "t", "j", "s", "r", ".", "a", "c", ".", "i", "n", "/", "O", "f", "f", "i", "c", "e", "/", "D", "e", "a", "n">>}

ProbeContents ==
    {<<>>, <<"A", "d", "m", "i", "s", "s", "i", "o", "n", " ", "e", "l", "i", "g", "i", "b", "i", "l", "i", "t", "y">>, <<"O", "u", "r", " ", "p", "r", "o", "f", "e", "s", "s", "o", "r", "s">>, <<"P", "l", "a", "c", "e", "m", "e", "n", "t", " ", "d", "r", "i", "v", "e">>,
     <<"N", "e", "w", "s", " ", "a", "n", "d", " ", "e", "v", "e", "n", "t", "s">>, <<"S", "t", "u", "d", "e", "n", "t", " ", "l", "i", "f", "e">>, <<"A", "d", "m", "i", "n", "i", "s", "t", "r", "a", "t", "i", "o", "n">>}

ProbeHrefs ==
    {<<"/", "a", ".", "p", "d", "f">>, <<"/", "d", "o", "c", "s", "/", "B", "r", "o", "c", "h", "u", "r", "e", ".", "P", "D", "F">>, U_apdf, <<"h", "t", "t", "p", "s", ":", "/", "/", "e", "x", "a", "m", "p", "l", "e", ".", "c", "o", "m", "/", "x", ".", "p", "d", "f">>, <<"/", "D", "e", "p", "t", "/", "C", "S", "E">>,
     <<"/", "i", "m", "g", "/", "l", "o", "g", "o", ".", "p", "n", "g">>, <<"h", "t", "t", "p", ":", "/", "/">>, <<"/", "d", "o", "c", "s", "/", "r", "e", "p", "o", "r", "t", ".", "p", "d", "f", "?", "d", "o", "w", "n", "l", "o", "a", "d", "=", "1">>, U_lookalike}

Generations == {"enhanced", "comprehensive"}

\* NITJSRComprehensiveScraper.scrapePage: one iteration of pageData.links.forEach
ComprehensiveProcessLink(link, url, depth, vis, frontier) ==
    LET r == ResolveUrl(link.href, url)
    IN  IF r.ok /\ comprehensiveIsValidUrl(r.href) /\ r.href \notin vis
        THEN Append(frontier, [url |-> r.href, depth |-> depth + 1])
        ELSE frontier

\* NITJSRComprehensiveScraper.scrapePDFDocuments: what one link of a page adds to pdfLinks
ComprehensivePdfLinks(link, pageUrl, pdfLinks) ==
    LET r == ResolveUrl(link.href, pageUrl)
    IN  IF Includes(ToLowerCase(link.href), <<".", "p", "d", "f">>) /\ r.ok
        THEN SetAdd(pdfLinks, r.href)
        ELSE pdfLinks

\* what a link found on the home page at depth 0 adds to the frontier and to the
\* PDF collections of a scraper that has visited only the home page
LinkEffect(generation, href) ==
    LET link == RawLink(href, <<"L", "i", "n", "k">>)
    IN  IF generation = "enhanced"
        THEN LET acc == ProcessLink(link, U_home, <<"N", "I", "T", " ", "J", "a", "m", "s", "h", "e", "d", "p", "u", "r">>, 0, {U_home},
                                    [links |-> EmptyScrapedData.links, pdfUrls |-> <<>>,
                                     toVisit |-> <<>>])
             IN  [toVisit |-> acc.toVisit, pdfUrls |-> acc.pdfUrls]
        ELSE [toVisit |-> ComprehensiveProcessLink(link, U_home, 0, {U_home}, <<>>),
              pdfUrls |-> ComprehensivePdfLinks(link, U_home, <<>>)]

\* a snapshot with three PDF links
SnapManyPdfs ==
    MakeSnapshot(<<HomePage>>,
                 <<LinkData(<<"h", "t", "t", "p", "s", ":", "/", "/", "n", "i", "t", "j", "s", "r", ".", "a", "c", ".", "i", "n", "/", "d", "o", "c", "s", "/", "f", "e", "e", ".", "p", "d", "f">>, <<"F", "e", "e", " ", "P", "D", "F">>, U_home, <<"H", "o", "m", "e">>),
                   LinkData(<<"h", "t", "t", "p", "s", ":", "/", "/", "n", "i", "t", "j", "s", "r", ".", "a", "c", ".", "i", "n", "/", "d", "o", "c", "s", "/", "c", "a", "l", "e", "n", "d", "a", "r", ".", "p", "d", "f">>, <<"C", "a", "l", "e", "n", "d", "a", "r", " ", "P", "D", "F">>, U_home,
                            <<"H", "o", "m", "e">>),
                   LinkData(<<"h", "t", "t", "p", "s", ":", "/", "/", "n", "i", "t", "j", "s", "r", ".", "a", "c", ".", "i", "n", "/", "d", "o", "c", "s", "/", "s", "y", "l", "l", "a", "b", "u", "s", ".", "p", "d", "f">>, <<"S", "y", "l", "l", "a", "b", "u", "s", " ", "P", "D", "F">>, U_home,
                            <<"H", "o", "m", "e">>)>>,
                 <<>>, <<>>)

\* link databases findRelevantLinks is called on
ProbeDatabases ==
    [d \in 1..Len(Snapshots) |-> buildLinkDatabase(<<>>, Snapshots[d])]
        \o <<buildLinkDatabase(<<>>, SnapManyPdfs),
             buildLinkDatabase(buildLinkDatabase(<<>>, SnapLinksIngested), SnapOther)>>

ProbeQuestions == Questions \cup {<<"p", "d", "f">>, <<"W", "h", "i", "c", "h", " ", "d", "o", "c", "u", "m", "e", "n", "t", "s", " ", "a", "r", "e", " ", "t", "h", "e", "r", "e">>, <<"f", "e", "e", " ", "s", "t", "r", "u", "c", "t", "u", "r", "e">>}

\* the i-th PDF of a page that links to many
PdfUrlNo(i) == <<"h", "t", "t", "p", "s", ":", "/", "/", "n", "i", "t", "j", "s", "r", ".", "a", "c", ".", "i", "n", "/", "d", "o", "c", "s", "/", "f", "i", "l", "e">> \o Dec(i) \o <<".", "p", "d", "f">>

\* this.pdfUrls after scrapePage met links to the PDFs 1..n, the first of them twice
DiscoveredPdfUrls(n) ==
    IF n = 0 THEN <<>> ELSE SetAdd([i \in 1..n |-> PdfUrlNo(i)], PdfUrlNo(1))

\* the numbers of discovered PDFs, around the limit, and the positions at which
\* the download or the decoding fails
ProbePdfCounts == {0, 1, 2, PdfCap - 1, PdfCap, PdfCap + 1, PdfCap + 2}
ProbePdfFailures == {{}, {1}, {2, PdfCap}, {PdfCap + 1}}

\* the first k of the sequences, one after another
RECURSIVE Concat(_, _)
Concat(seqs, k) == IF k = 0 THEN <<>> ELSE Concat(seqs, k - 1) \o seqs[k]

\* processPDFDocuments on a scraper with the given pdfUrls and empty scrapedData:
\* the URLs the for loop attempts (i = 0 .. maxPdfs - 1, each once, whatever the
\* outcome) and the documents its iterations push, those at the positions in
\* `failing` throwing
processPDFDocuments(urls, failing) ==
    LET pushed == [i \in 1..MaxPdfsOf(urls) |->
                      PdfIteration(EmptyScrapedData, urls[i], i \notin failing).documents.pdfs]
    IN  [attempted |-> [i \in 1..MaxPdfsOf(urls) |-> urls[i]],
         pdfs |-> Concat(pushed, MaxPdfsOf(urls))]

NoCall == [fn |-> "none"]

FnInit == fnCall = NoCall /\ fnResult = NoCall

CallIsValidUrl(u) ==
    /\ fnCall = NoCall
    /\ fnCall' = [fn |-> "isValidUrl", url |-> u]
    /\ fnResult' = [fn |-> "isValidUrl", value |-> isValidUrl(u)]
    /\ UNCHANGED nonFnVars

CallCategorizeUrl(g, u, c) ==
    /\ fnCall = NoCall
    /\ fnCall' = [fn |-> "categorizeUrl", generation |-> g, url |-> u, content |-> c]
    /\ fnResult' = [fn |-> "categorizeUrl",
                    value |-> IF g = "enhanced" THEN categorizeUrl(u, c)
                              ELSE comprehensiveCategorizeUrl(u, c)]
    /\ UNCHANGED nonFnVars

CallFindRelevantLinks(q, d) ==
    /\ fnCall = NoCall
    /\ fnCall' = [fn |-> "findRelevantLinks", question |-> q, db |-> d]
    /\ fnResult' = [fn |-> "findRelevantLinks",
                    value |-> findRelevantLinks(q, <<>>, ProbeDatabases[d])]
    /\ UNCHANGED nonFnVars

\* scrapePage meets a link
CallProcessLink(g, h) ==
    /\ fnCall = NoCall
    /\ fnCall' = [fn |-> "processLink", generation |-> g, href |-> h]
    /\ fnResult' = [fn |-> "processLink", value |-> LinkEffect(g, h)]
    /\ UNCHANGED nonFnVars

CallProcessPDFDocuments(n, failing) ==
    /\ fnCall = NoCall
    /\ fnCall' = [fn |-> "processPDFDocuments", urls |-> DiscoveredPdfUrls(n),
                  failing |-> failing]
    /\ fnResult' = [fn |-> "processPDFDocuments",
                    value |-> processPDFDocuments(fnCall'.urls, failing)]
    /\ UNCHANGED nonFnVars

\* a text of n copies of s
RECURSIVE Repeat(_, _)
Repeat(s, n) == IF n = 0 THEN <<>> ELSE s \o Repeat(s, n - 1)

LongText == Repeat(<<"T", "h", "e", " ", "i", "n", "s", "t", "i", "t", "u", "t", "e", " ", "p", "u", "b", "l", "i", "s", "h", "e", "s", " ", "t", "h", "e", " ", "p", "l", "a", "c", "e", "m", "e", "n", "t", " ", "s", "t", "a", "t", "i", "s", "t", "i", "c", "s", " ", "h", "e", "r", "e", ".", " ">>, 28)

\* pages for the chunk building: a blank one, one of several chunks, one of one chunk
ProbePage(i, title, text) ==
    ProcessedPage(baseUrl \o <<"/", "p">> \o Dec(i), 1,
                  [title |-> title, headings |-> <<>>, content |-> <<text>>,
                   description |-> <<>>, keywords |-> <<>>, links |-> <<>>])
BlankPage == ProbePage(0, <<>>, <<>>)
LongPage == ProbePage(1, <<"P", "l", "a", "c", "e", "m", "e", "n", "t", " ", "s", "t", "a", "t", "i", "s", "t", "i", "c", "s">>, LongText)
ProbePdf(url, text) == [PdfDoc(url, <<ReportLink>>) EXCEPT !.text = text]
ScannedPdf == ProbePdf(U_fees, <<>>)
LongPdf == ProbePdf(U_report, LongText)

\* snapshots for the chunk building: 5 has a blank page before the others and a
\* PDF without text before the other, 6 has ten pages and a PDF
SnapMixed ==
    MakeSnapshot(<<BlankPage, LongPage, GenPage(2)>>, <<ReportLink>>, <<>>,
                 <<ScannedPdf, LongPdf, ProbePdf(U_pdf1, LongText)>>)
SnapBigPdf ==
    MakeSnapshot([i \in 1..MaxSnapPages |-> GenPage(i)], <<ReportLink>>, <<>>, <<LongPdf>>)
ChunkSnapshots == Snapshots \o <<SnapMixed, SnapBigPdf>>

\* the chunk building of processAndStoreDocuments, run twice on one snapshot
CallBuildDocuments(d) ==
    /\ fnCall = NoCall
    /\ fnCall' = [fn |-> "buildDocuments", data |-> d]
    /\ LET first == DocIdAtCall(0)
           second == DocIdAtCall(DocIdAfter(first, ChunkSnapshots[d]))
       IN  fnResult' = [fn |-> "buildDocuments",
                        value |-> [first |-> BuildDocumentsFrom(first, ChunkSnapshots[d]),
                                   second |-> BuildDocumentsFrom(second, ChunkSnapshots[d])]]
    /\ UNCHANGED nonFnVars

\* 7: an internal link and a page title with one key, two internal links with one key
U_tnp == <<"h", "t", "t", "p", "s", ":", "/", "/", "n", "i", "t", "j", "s", "r", ".", "a", "c", ".", "i", "n", "/", "t", "n", "p">>
SnapShared ==
    MakeSnapshot(<<PlacementsPage, GenPage(1)>>, <<ReportLink>>,
                 <<LinkData(U_tnp, <<"P", "L", "A", "C", "E", "M", "E", "N", "T", "S">>, U_home, <<"N", "I", "T", " ", "J", "a", "m", "s", "h", "e", "d", "p", "u", "r">>),
                   LinkData(U_cse, <<"C", "o", "m", "p", "u", "t", "e", "r", " ", " ", "S", "c", "i", "e", "n", "c", "e">>, U_home, <<"N", "I", "T", " ", "J", "a", "m", "s", "h", "e", "d", "p", "u", "r">>),
                   LinkData(U_people, <<"c", "o", "m", "p", "u", "t", "e", "r", " ", "s", "c", "i", "e", "n", "c", "e">>, U_cse, <<"C", "S", "E">>)>>,
                 <<>>)
LinkSnapshots == Snapshots \o <<SnapShared>>

\* this.linkDatabase before the call: new, or left by an earlier call
LinkDatabasesBefore == <<<<>>, buildLinkDatabase(<<>>, SnapOther),
                         buildLinkDatabase(<<>>, SnapShared)>>

\* buildLinkDatabase(scrapedData) on an instance
CallBuildLinkDatabase(b, d) ==
    /\ fnCall = NoCall
    /\ fnCall' = [fn |-> "buildLinkDatabase", before |-> b, data |-> d]
    /\ fnResult' = [fn |-> "buildLinkDatabase",
                    value |-> buildLinkDatabase(LinkDatabasesBefore[b], LinkSnapshots[d])]
    /\ UNCHANGED nonFnVars

\* the links section of the prompt generateResponse builds for a question
CallLinksContext(q, d) ==
    /\ fnCall = NoCall
    /\ fnCall' = [fn |-> "linksContext", question |-> q, db |-> d]
    /\ LET links == findRelevantLinks(q, <<>>, ProbeDatabases[d])
       IN  fnResult' = [fn |-> "linksContext",
                        value |-> [links |-> links, text |-> linksContext(links)]]
    /\ UNCHANGED nonFnVars

\* the caller has taken the result
FnReturn ==
    /\ fnCall # NoCall
    /\ fnCall' = NoCall
    /\ fnResult' = NoCall
    /\ UNCHANGED nonFnVars

FnNext ==
    \/ FnReturn
    \/ \E u \in ProbeUrls : CallIsValidUrl(u)
    \/ \E g \in Generations, u \in ProbeUrls, c \in ProbeContents : CallCategorizeUrl(g, u, c)
    \/ \E q \in ProbeQuestions, d \in 1..Len(ProbeDatabases) : CallFindRelevantLinks(q, d)
    \/ \E g \in Generations, h \in ProbeHrefs : CallProcessLink(g, h)
    \/ \E n \in ProbePdfCounts, failing \in ProbePdfFailures : CallProcessPDFDocuments(n, failing)
    \/ \E d \in 1..Len(ChunkSnapshots) : CallBuildDocuments(d)
    \/ \E q \in ProbeQuestions, d \in 1..Len(ProbeDatabases) : CallLinksContext(q, d)
    \/ \E b \in 1..Len(LinkDatabasesBefore), d \in 1..Len(LinkSnapshots) :
           CallBuildLinkDatabase(b, d)

(***************************************************************************)
(* NITJSRServer: the startup callback and the POST /initialize and         *)
(* POST /scrape handlers, each an async function that runs up to its next  *)
(* await. handlers[h].at is the await handler h stands at.                 *)
(***************************************************************************)
MaxRequests == 2    \* requests the server receives

Handlers == 0..MaxRequests
Requests == 1..MaxRequests

NoHandler == [route |-> "none", at |-> "none", force |-> FALSE]

\* the variables validateEnvironment requires
RequiredEnv == {"GEMINI_API_KEY", "PINECONE_API_KEY", "PINECONE_INDEX_NAME",
                "PINECONE_ENVIRONMENT"}

\* the environments the server is started in: complete, or with variables unset
Environments == {RequiredEnv,
                 RequiredEnv \ {"PINECONE_ENVIRONMENT"},
                 RequiredEnv \ {"PINECONE_API_KEY"},
                 RequiredEnv \ {"GEMINI_API_KEY", "PINECONE_INDEX_NAME"}}

\* validateEnvironment returns (TRUE) or throws
validateEnvironment(env) == RequiredEnv \ env = {}

\* ragSystem.initialize() reads process.env.PINECONE_API_KEY.trim() and
\* process.env.PINECONE_INDEX_NAME.trim(): a TypeError when the variable is unset.
\* PINECONE_ENVIRONMENT is read only when the index has to be created.
InitializeCanReturn(env) == {"PINECONE_API_KEY", "PINECONE_INDEX_NAME"} \subseteq env

\* the constructor and start(): the listen callback is about to call initializeSystem
ServerInit ==
    /\ serverInitialized = FALSE
    /\ dataExists \in BOOLEAN
    /\ processEnv \in Environments
    /\ handlers = [h \in Handlers |->
                      IF h = 0 THEN [route |-> "startup", at |-> "enter", force |-> FALSE]
                      ELSE NoHandler]

\* no server has been constructed
ServerAtRest ==
    /\ serverInitialized = FALSE
    /\ dataExists = FALSE
    /\ processEnv = RequiredEnv
    /\ handlers = [h \in Handlers |-> NoHandler]

MoveTo(h, at) == handlers' = [handlers EXCEPT ![h].at = at]

\* POST /initialize arrives: validateEnvironment, then initializeSystem
PostInitialize(h, envOk) ==
    /\ handlers[h].at = "none"
    /\ handlers' = [handlers EXCEPT ![h] = [route |-> "initialize",
                                            at |-> IF envOk THEN "enter" ELSE "failed",
                                            force |-> FALSE]]
    /\ UNCHANGED <<serverInitialized, dataExists, processEnv>>
    /\ UNCHANGED nonServerVars

\* POST /scrape arrives: the handler calls scraper.scrapeComprehensive() at once
PostScrape(h, force) ==
    /\ handlers[h].at = "none"
    /\ handlers' = [handlers EXCEPT ![h] = [route |-> "scrape", at |-> "scrape",
                                            force |-> force]]
    /\ UNCHANGED <<serverInitialized, dataExists, processEnv>>
    /\ UNCHANGED nonServerVars

\* a POST /chat handler without the 503 test
ChatRoute_NoGuard(questionOk, initialized) == IF ~questionOk THEN "rejected" ELSE "chat"

\* the POST /chat handler up to its await: 400 for an empty question, 503 while the
\* server is not initialized, else ragSystem.chat(question) is called
ChatRoute(questionOk, initialized) ==
    IF ~questionOk \/ ~initialized THEN "rejected" ELSE "chat"

\* POST /chat arrives
PostChat(h, questionOk) ==
    /\ handlers[h].at = "none"
    /\ handlers' = [handlers EXCEPT ![h] = [route |-> "chat",
                                            at |-> ChatRoute(questionOk, serverInitialized),
                                            force |-> FALSE]]
    /\ UNCHANGED <<serverInitialized, dataExists, processEnv>>
    /\ UNCHANGED nonServerVars

\* ragSystem.chat(question) returns (200) or throws (500)
ChatSettled(h, ok) ==
    /\ handlers[h].at = "chat"
    /\ MoveTo(h, IF ok THEN "done" ELSE "failed")
    /\ UNCHANGED <<serverInitialized, dataExists, processEnv>>
    /\ UNCHANGED nonServerVars

\* initializeSystem is entered: return when initialized, else ragSystem.initialize()
EnterInitializeSystem(h) ==
    /\ handlers[h].at = "enter"
    /\ MoveTo(h, IF serverInitialized THEN "done" ELSE "ragInit")
    /\ UNCHANGED <<serverInitialized, dataExists, processEnv>>
    /\ UNCHANGED nonServerVars

\* ragSystem.initialize() returns or throws; then the data directory is read
RagInitialized(h, ok) ==
    /\ handlers[h].at = "ragInit"
    /\ ok => InitializeCanReturn(processEnv)
    /\ MoveTo(h, IF ok THEN "readData" ELSE "failed")
    /\ UNCHANGED <<serverInitialized, dataExists, processEnv>>
    /\ UNCHANGED nonServerVars

\* readdir and readFile of initializeSystem: with no data the scraper is called
ReadData(h, found) ==
    /\ handlers[h].at = "readData"
    /\ found => dataExists
    /\ MoveTo(h, IF found THEN "process" ELSE "scrape")
    /\ UNCHANGED <<serverInitialized, dataExists, processEnv>>
    /\ UNCHANGED nonServerVars

\* scraper.scrapeComprehensive() returns: the snapshot file was written
ScrapeReturned(h) ==
    /\ handlers[h].at = "scrape"
    /\ dataExists' = TRUE
    /\ MoveTo(h, IF handlers[h].route = "scrape" /\ handlers[h].force THEN "clear"
                 ELSE "process")
    /\ UNCHANGED <<serverInitialized, processEnv>>
    /\ UNCHANGED nonServerVars

\* scraper.scrapeComprehensive() throws
ScrapeThrew(h) ==
    /\ handlers[h].at = "scrape"
    /\ MoveTo(h, "failed")
    /\ UNCHANGED <<serverInitialized, dataExists, processEnv>>
    /\ UNCHANGED nonServerVars

\* ragSystem.clearIndex() of POST /scrape returns or throws
IndexCleared(h, ok) ==
    /\ handlers[h].at = "clear"
    /\ MoveTo(h, IF ok THEN "process" ELSE "failed")
    /\ UNCHANGED <<serverInitialized, dataExists, processEnv>>
    /\ UNCHANGED nonServerVars

\* ragSystem.processAndStoreDocuments returns or throws
DocumentsProcessed(h, ok) ==
    /\ handlers[h].at = "process"
    /\ MoveTo(h, IF ok THEN "done" ELSE "failed")
    /\ serverInitialized' = (serverInitialized \/ (ok /\ handlers[h].route # "scrape"))
    /\ UNCHANGED <<dataExists, processEnv>>
    /\ UNCHANGED nonServerVars

ServerNext ==
    \/ \E h \in Requests : PostInitialize(h, validateEnvironment(processEnv))
    \/ \E h \in Requests, force \in BOOLEAN : PostScrape(h, force)
    \/ \E h \in Handlers : EnterInitializeSystem(h)
    \/ \E h \in Handlers, ok \in BOOLEAN : RagInitialized(h, ok)
    \/ \E h \in Handlers, found \in BOOLEAN : ReadData(h, found)
    \/ \E h \in Handlers : ScrapeReturned(h)
    \/ \E h \in Handlers : ScrapeThrew(h)
    \/ \E h \in Handlers, ok \in BOOLEAN : IndexCleared(h, ok)
    \/ \E h \in Handlers, ok \in BOOLEAN : DocumentsProcessed(h, ok)
    \/ \E h \in Requests, questionOk \in BOOLEAN : PostChat(h, questionOk)
    \/ \E h \in Requests, ok \in BOOLEAN : ChatSettled(h, ok)

\* the handlers that are inside scraper.scrapeComprehensive()
Crawling == {h \in Handlers : handlers[h].at = "scrape"}

(***************************************************************************)
(* Specifications                                                          *)
(***************************************************************************)
vars == <<options, maxPages, maxDepth, browser, visited, toVisit, pdfUrls, scrapedData,
          pc, cur, pdfIndex, pdfArray, outcome, sessions, lastReturn, gotoLog, popLog,
          failed, snapshot,
          isInitialized, linkDatabase, index, ragPc, dataRef, batchIndex, procResult,
          question, relevantDocs, chatResult, calls, batchLog, upserted, chatLog, callLog,
          rejected, chatEntry,
          phaseLog, fnCall, fnResult, serverInitialized, dataExists, handlers, processEnv>>

\* the scraper, with the RAG system at rest
InitCrawl == ScraperInit /\ RagInit /\ FnInit /\ ServerAtRest
SpecCrawl == InitCrawl /\ [][ScraperNext]_vars

\* the statements of the while loop run to the next await
LoopProgress == LoopPop \/ LoopExit

\* the await of scrapePage settles: page.goto has a timeout of 45 s, and a throw
\* is caught. These are the steps that change pc from "goto", those of Rendered.
RenderSettles == pc = "goto" /\ pc' = "loop"

SpecCrawlFair == SpecCrawl /\ WF_vars(LoopProgress) /\ WF_pc(RenderSettles)

\* the scraper before any call
RagScraperInit ==
    /\ options = [maxPages |-> 0, maxDepth |-> 0]
    /\ maxPages = DefaultMaxPages
    /\ maxDepth = DefaultMaxDepth
    /\ browser = FALSE /\ visited = {} /\ toVisit = <<>> /\ pdfUrls = <<>>
    /\ scrapedData = EmptyScrapedData /\ pc = "idle" /\ cur = NoEntry /\ pdfIndex = 0
    /\ pdfArray = <<>> /\ outcome = "none" /\ sessions = 0 /\ lastReturn = "none"
    /\ gotoLog = <<>> /\ popLog = <<>> /\ failed = {} /\ snapshot = EmptyScrapedData
    /\ phaseLog = <<>>

\* the RAG system, with the scraper at rest
InitRag == RagScraperInit /\ RagInit /\ FnInit /\ ServerAtRest
SpecRag == InitRag /\ [][RagNext]_vars

\* single calls of the functions
InitFn == RagScraperInit /\ RagInit /\ FnInit /\ ServerAtRest
SpecFn == InitFn /\ [][FnNext]_vars

\* the server's handlers
InitServer == RagScraperInit /\ RagInit /\ FnInit /\ ServerInit
SpecServer == InitServer /\ [][ServerNext]_vars

(***************************************************************************)
(* Properties of the crawl session (SpecCrawl)                             *)
(***************************************************************************)
\* C1: in every state of a crawl session the number of visited URLs is at most
\* maxPages, and no URL whose depth is greater than maxDepth is ever rendered
\* (gotoLog holds every page.goto).
C1_FrontierBound ==
    /\ Cardinality(visited) <= maxPages
    /\ \A i \in 1..Len(gotoLog) : gotoLog[i].depth <= maxDepth

\* the page cap stopped the loop with entries left on the frontier, after a page
\* at depth maxDepth was rendered
C1_CapReached ==
    /\ pc = "pdfs"
    /\ Cardinality(visited) = maxPages
    /\ Len(toVisit) > 0
    /\ \E i \in 1..Len(gotoLog) : gotoLog[i].depth = maxDepth

\* C2: every invocation of scrapeComprehensive, also a later one on the same
\* instance, starts its crawl loop with an empty visited set, a frontier holding
\* nothing of an earlier invocation (only the seeds), and empty page, PDF and
\* link accumulators.
C2_FreshSession ==
    (pc = "loop" /\ popLog = <<>>) =>
        /\ visited = {}
        /\ toVisit = SeedFrontier(<<>>)
        /\ pdfUrls = <<>>
        /\ scrapedData = EmptyScrapedData

LinkLists(data) ==
    {data.links.internal, data.links.external, data.links.pdf, data.links.image}

\* a URL whose render failed is in visited, was rendered once, and is the url of
\* no page, of no category bucket entry and the source of no link record
C8_NoTrace ==
    \A u \in failed :
        /\ u \in visited
        /\ Cardinality({i \in 1..Len(gotoLog) : gotoLog[i].url = u}) = 1
        /\ \A i \in 1..Len(scrapedData.pages) : scrapedData.pages[i].url # u
        /\ \A c \in DOMAIN scrapedData.categories :
               \A i \in 1..Len(scrapedData.categories[c]) :
                   scrapedData.categories[c][i].url # u
        /\ \A ls \in LinkLists(scrapedData) :
               \A i \in 1..Len(ls) : ls[i].sourceUrl # u

\* the step in which a render fails
C8_FailStep ==
    (pc = "goto" /\ failed' # failed) =>
        /\ lastReturn' = "null"
        /\ pc' = "loop"
        /\ UNCHANGED <<scrapedData, toVisit, pdfUrls, visited, gotoLog>>

\* C8: when rendering a URL fails, scrapePage returns null without throwing,
\* adds no page, no category entry, no link record and no frontier entry, does
\* not retry, and the URL stays in visited and is never rendered again.
C8_RenderFailure == []C8_NoTrace /\ [][C8_FailStep]_vars

\* a session returned with pages scraped although a render failed, and the failed
\* URL came off the frontier a second time
C8_FailedAndSkipped ==
    /\ pc = "idle" /\ outcome = "returned"
    /\ Len(scrapedData.pages) > 0
    /\ \E u \in failed :
           Cardinality({i \in 1..Len(popLog) : popLog[i].url = u}) >= 2

(***************************************************************************)
(* Properties of the RAG system (SpecRag)                                  *)
(***************************************************************************)
LastCall == IF callLog = <<>> THEN "none" ELSE callLog[Len(callLog)].call
LastPhase == IF callLog = <<>> THEN "none" ELSE callLog[Len(callLog)].phase

BatchAttempted(b) == \E i \in 1..Len(batchLog) : batchLog[i] = Event("embed", b)
BatchStored(b) == \E i \in 1..Len(batchLog) : batchLog[i] = Event("stored", b)
BatchFailed(b) ==
    \E i \in 1..Len(batchLog) :
        batchLog[i] \in {Event("embedFailed", b), Event("upsertFailed", b)}
BatchIds(b) == {doc.id : doc \in Range(BatchOf(documents, b))}
BatchInStore(b) == BatchStored(b) /\ BatchIds(b) \subseteq MapKeys(index)

\* C3: when embedding or upserting batch k throws, the call does not throw, the
\* batches stored before k stay in the store, and by the time the call returns
\* every batch after k was embedded and, unless it failed itself, upserted.
C3_BatchIsolation ==
    LastCall = "process" =>
        \A k \in 0..(NumBatches(documents) - 1) :
            BatchFailed(k) =>
                /\ procResult.kind # "threw"
                /\ \A j \in 0..(k - 1) : BatchStored(j) => BatchInStore(j)
                /\ ragPc = "idle" =>
                       /\ procResult.kind = "returned"
                       /\ \A j \in (k + 1)..(NumBatches(documents) - 1) :
                              BatchAttempted(j) /\ (BatchFailed(j) \/ BatchInStore(j))

\* a call over three batches returned with the middle batch failed and the
\* other two stored
C3_MiddleBatchFailed ==
    /\ LastCall = "process" /\ ragPc = "idle" /\ procResult.kind = "returned"
    /\ NumBatches(documents) = 3
    /\ BatchInStore(0) /\ BatchFailed(1) /\ BatchInStore(2)

\* C4: the totalDocuments that processAndStoreDocuments returns equals the
\* number of chunks upserted by the call.
C4_ReportedCount ==
    (LastCall = "process" /\ procResult.kind = "returned") =>
        procResult.totalDocuments = Cardinality(upserted)

\* C5: batches are processed one after another; the first embedding call of
\* every batch but the first comes right after the delay that follows the batch
\* before it, whether that batch succeeded or failed; no delay follows the
\* final batch.
C5_InterBatchDelay ==
    /\ \A i, j \in 1..Len(batchLog) : i < j => batchLog[i].batch <= batchLog[j].batch
    /\ \A i \in 1..Len(batchLog) :
           (batchLog[i].ev = "embed" /\ batchLog[i].batch > 0) =>
               (i > 1 /\ batchLog[i - 1] = Event("delay", batchLog[i].batch - 1))
    /\ \A i \in 1..Len(batchLog) :
           batchLog[i].ev = "delay" => batchLog[i].batch < NumBatches(documents) - 1

QueryReturnedNothing ==
    /\ chatLog # <<>> /\ chatLog[Len(chatLog)] = "query"
    /\ relevantDocs = <<>>

ChatThrew == LastCall = "chat" /\ chatLog # <<>> /\ chatLog[Len(chatLog)] = "threw"

NoRetry ==
    \A c \in {"embed", "query", "generate"} :
        Cardinality({i \in 1..Len(chatLog) : chatLog[i] = c}) <= 1

\* C7, as claimed: when an external call of chat throws, the exception reaches
\* the caller, nothing is retried, no answer is returned, and the link database
\* and the initialization flag are as they were when chat was called; the
\* system is ready for the next call.
C7_StateUnchanged ==
    ChatThrew =>
        /\ chatResult = Threw /\ LastPhase = "threw"
        /\ NoRetry
        /\ linkDatabase = chatEntry.linkDatabase
        /\ isInitialized = chatEntry.isInitialized
        /\ ragPc = "idle"

\* C7, amended: when an external call of chat throws, the exception reaches the
\* caller, nothing is retried, no answer is returned, the link database is as it
\* was when chat was called, and the initialization flag is set (by the lazy
\* initialize() of this call if it was not set before); the system is ready for
\* the next call.
C7_FlagNeverReset ==
    ChatThrew =>
        /\ chatResult = Threw /\ LastPhase = "threw"
        /\ NoRetry
        /\ linkDatabase = chatEntry.linkDatabase
        /\ isInitialized
        /\ ragPc = "idle"

\* generateContent threw in a chat over a system holding links
C7_GenerateThrew ==
    /\ ChatThrew
    /\ "generate" \in Range(chatLog)
    /\ linkDatabase # <<>>

\* the filename stem of a URL, lower-cased
FilenameStem(url) ==
    LET f == ToLowerCase(LastPart(url))
    IN  IF EndsWith(f, <<".", "p", "d", "f">>) THEN SubSeq(f, 1, Len(f) - 4) ELSE f

EquivalentEntries(a, b) == a.url = b.url /\ a.text = b.text /\ a.type = b.type

\* buildLinkDatabase has run in the last call
LinkDatabaseBuilt ==
    /\ LastCall = "process"
    /\ ragPc \in {"embed", "upsert", "delay"} \/ procResult.kind = "returned"

\* C9: once buildLinkDatabase has finished, every PDF link record of the
\* snapshot has the key 'pdf_' + slug(text) and the key 'pdf_' + lower-cased
\* filename stem, and both resolve to entries with the same url, text and type.
C9_LinkAliasing ==
    LinkDatabaseBuilt =>
        \A link \in Range(Snapshots[dataRef].links.pdf) :
            LET key == PdfKey(link.text)
                alias == <<"p", "d", "f", "_">> \o FilenameStem(link.url)
            IN  /\ MapHas(linkDatabase, key)
                /\ MapHas(linkDatabase, alias)
                /\ EquivalentEntries(MapGet(linkDatabase, key), MapGet(linkDatabase, alias))

\* C10: after processAndStoreDocuments(S) completes, every entry of the link
\* database is one that buildLinkDatabase derives from S.
C10_OnlyCurrentSnapshot ==
    (LastCall = "process" /\ procResult.kind = "returned") =>
        \A i \in 1..Len(linkDatabase) :
            linkDatabase[i] \in Range(buildLinkDatabase(<<>>, Snapshots[dataRef]))

(***************************************************************************)
(* Properties of single calls                                              *)
(***************************************************************************)
\* C11: findRelevantLinks returns at most 5 links for every question and every
\* link database, questions that mention 'pdf' or 'document' included.
C11_AtMostFiveLinks ==
    fnCall.fn = "findRelevantLinks" => Len(fnResult.value) <= maxRelevantLinks

(***************************************************************************)
(* Further properties of the crawl session (SpecCrawl)                     *)
(***************************************************************************)
HomeRendered ==
    /\ \E i \in 1..Len(gotoLog) : gotoLog[i].url = U_home
    /\ U_home \notin failed

\* C12: a crawl configured with maxPages=1 and maxDepth=0 whose seed
\* https://nitjsr.ac.in/ renders successfully yields exactly one page and a
\* snapshot with statistics.totalPages = 1, and the depth limit in force is the
\* configured 0: the frontier never holds an entry of depth greater than 0.
C12_DepthZeroCrawl ==
    (options = [maxPages |-> 1, maxDepth |-> 0] /\ sessions = 1) =>
        /\ maxDepth = 0
        /\ \A i \in 1..Len(toVisit) : toVisit[i].depth <= 0
        /\ (pc = "idle" /\ outcome = "returned" /\ HomeRendered) =>
               /\ Len(scrapedData.pages) = 1
               /\ snapshot.statistics.totalPages = 1

(***************************************************************************)
(* Further properties of single calls (SpecFn)                             *)
(***************************************************************************)
\* the hostname is the target domain or a subdomain of it
InTargetDomain(hostname) ==
    \/ hostname = Domain
    \/ EndsWith(hostname, <<".">> \o Domain)

\* C13: isValidUrl returns false for every URL whose resolved hostname is
\* neither nitjsr.ac.in nor a subdomain of it.
C13_DomainFilter ==
    fnCall.fn = "isValidUrl" =>
        LET r == ResolveUrl(fnCall.url, baseUrl)
        IN  (r.ok /\ ~InTargetDomain(Hostname(r.href))) => fnResult.value = FALSE

\* C14: a discovered link whose href contains '.pdf' is tracked in the PDF
\* collections and is not added to the crawl frontier (so it is never rendered as
\* a page), in every scraper generation.
C14_PdfLinkTrackedApart ==
    fnCall.fn = "processLink" =>
        LET r == ResolveUrl(fnCall.href, U_home)
        IN  (Includes(ToLowerCase(fnCall.href), <<".", "p", "d", "f">>) /\ r.ok) =>
                /\ r.href \in Range(fnResult.value.pdfUrls)
                /\ fnResult.value.toVisit = <<>>

\* the order of the rules the specification gives
ClaimedOrder ==
    <<"placements", "admissions", "academics", "faculty", "students", "research",
      "departments", "news", "events", "administration">>

RulesOf(generation) ==
    IF generation = "enhanced" THEN CategoryRules ELSE ComprehensiveCategoryRules

\* C15: categorizeUrl(url, content) returns exactly one of the 11 categories: the
\* category of the first rule, in the order placements, admissions, academics,
\* faculty, students, research, departments, news, events, administration, whose
\* URL keywords occur in the lower-cased URL or whose content keywords occur in
\* the lower-cased content, and 'general' when no rule matches; an input that
\* matches a placement rule and an admission rule yields 'placements'.
C15_FirstRuleWins ==
    fnCall.fn = "categorizeUrl" =>
        LET rules == RulesOf(fnCall.generation)
            urlLower == ToLowerCase(fnCall.url)
            contentLower == ToLowerCase(fnCall.content)
            Matches(i) == RuleMatches(rules[i], urlLower, contentLower)
            value == fnResult.value
        IN  /\ Len(Categories) = 11
            /\ Cardinality(Range(Categories)) = 11
            /\ value \in Range(Categories)
            /\ [i \in 1..Len(rules) |-> rules[i].cat] = ClaimedOrder
            /\ (value = "general") <=> (\A i \in 1..Len(rules) : ~Matches(i))
            /\ \A i \in 1..Len(rules) :
                   (Matches(i) /\ \A j \in 1..(i - 1) : ~Matches(j)) => value = ClaimedOrder[i]
            /\ (Matches(1) /\ Matches(2)) => value = "placements"

\* a URL matching a placement keyword and an admission keyword was categorized,
\* by either scraper
C15_BothKeywords ==
    /\ fnCall.fn = "categorizeUrl"
    /\ fnCall.url = U_both
    /\ fnCall.content = <<"A", "d", "m", "i", "s", "s", "i", "o", "n", " ", "e", "l", "i", "g", "i", "b", "i", "l", "i", "t", "y">>
    /\ fnCall.generation = "comprehensive"
    /\ fnResult.value = "placements"

(***************************************************************************)
(* Properties of the server (SpecServer)                                   *)
(***************************************************************************)
\* C16: at any time at most one crawl runs on the server's scraper: overlapping
\* triggers (two /scrape requests, /initialize, the startup initialization while
\* not yet initialized) are never inside scrapeComprehensive at the same time.
C16_SingleCrawl == Cardinality(Crawling) <= 1

(***************************************************************************)
(* Properties of the steps of a crawl (SpecCrawl, SpecCrawlFair)           *)
(***************************************************************************)
\* the step in which scrapePage processes the links of the rendered page: the
\* frontier grows at its end, by entries that pass isValidUrl and are not visited
C17_EnqueueStep ==
    pc = "goto" =>
        /\ Len(toVisit') >= Len(toVisit)
        /\ SubSeq(toVisit', 1, Len(toVisit)) = toVisit
        /\ \A i \in (Len(toVisit) + 1)..Len(toVisit') :
               /\ isValidUrl(toVisit'[i].url)
               /\ toVisit'[i].url \notin visited
               /\ toVisit'[i].url \notin visited'

\* C17: a URL discovered on a page is added to the frontier only if, at the
\* moment it is added, it passes isValidUrl and is not in visited.
C17_EnqueueOnlyValidUnvisited == [][C17_EnqueueStep]_vars

\* the placements page, which links back to the visited home page, has been
\* rendered: its link to the CSE page is on the frontier, the home page is not
C17_BackLinkSkipped ==
    /\ pc = "loop"
    /\ sessions = 1
    /\ gotoLog # <<>>
    /\ gotoLog[Len(gotoLog)].url = U_placements
    /\ U_placements \notin failed
    /\ U_home \in visited
    /\ \E i \in 1..Len(toVisit) : toVisit[i] = [url |-> U_cse, depth |-> 1]
    /\ \A i \in 1..Len(toVisit) : toVisit[i].url = U_home => toVisit[i].depth = 0

\* the crawl loop is left exactly when the frontier is empty or the page cap is
\* reached
C18_ExitStep ==
    pc = "loop" =>
        LET done == Len(toVisit) = 0 \/ Cardinality(visited) >= maxPages
        IN  /\ done => pc' = "pdfs"
            /\ ~done => pc' \in {"loop", "goto"}

\* C18: on a site with finitely many pages, each with finitely many links, the
\* crawl loop of scrapeComprehensive terminates: it ends as soon as the frontier is
\* empty or |visited| reaches maxPages, and one of the two eventually happens.
C18_LoopTerminates ==
    /\ [][C18_ExitStep]_vars
    /\ (pc = "loop") ~> (pc = "pdfs")

\* the loop ended on an empty frontier after every page of the site was rendered,
\* entries skipped as visited included
C18_FrontierDrained ==
    /\ pc = "pdfs"
    /\ sessions = 1
    /\ Len(toVisit) = 0
    /\ Cardinality(visited) < maxPages
    /\ Len(popLog) > Len(gotoLog)
    /\ U_prof \in visited

\* the place of a logged step in the order of the phases
PhaseRank(step) ==
    CASE step \in {"goto", "page"} -> 1
      [] step \in {"pdf", "document"} -> 2
      [] step = "stats" -> 3
      [] step = "save" -> 4
      [] step = "cleanup" -> 5

Count(log, step) == Cardinality({i \in 1..Len(log) : log[i] = step})

\* C19: within one scrapeComprehensive run the phases occur in the order crawl
\* loop, PDF ingestion, statistics update, snapshot save, browser cleanup: no PDF
\* is downloaded before the crawl loop has ended, no page is fetched after PDF
\* ingestion has begun, and the snapshot is written only after the statistics
\* were updated (phaseLog holds the page.goto calls, pages scraped, PDF
\* downloads, PDFs decoded, statistics updates, snapshot writes and cleanups of
\* the run, in the order they happened).
C19_PhaseOrder ==
    /\ \A i, j \in 1..Len(phaseLog) :
           i < j => PhaseRank(phaseLog[i]) <= PhaseRank(phaseLog[j])
    /\ Count(phaseLog, "stats") <= 1
    /\ Count(phaseLog, "save") <= 1
    /\ Count(phaseLog, "cleanup") <= 1
    /\ Count(phaseLog, "save") = 1 =>
           /\ Count(phaseLog, "stats") = 1
           /\ updateStatistics(snapshot) = snapshot
    /\ pc = "pdfs" => Count(phaseLog, "stats") = 0
    /\ pc \in {"loop", "goto"} => Count(phaseLog, "pdf") = 0

\* a run went through all five phases: pages fetched, PDFs downloaded, statistics
\* updated, snapshot saved, browser closed
C19_AllPhasesRan ==
    /\ pc = "idle" /\ outcome = "returned"
    /\ Count(phaseLog, "goto") >= 2
    /\ Count(phaseLog, "pdf") >= 2
    /\ phaseLog[Len(phaseLog)] = "cleanup"
    /\ phaseLog[Len(phaseLog) - 1] = "save"
    /\ phaseLog[Len(phaseLog) - 2] = "stats"

\* C20: the summary returned by scrapeComprehensive and the statistics of the
\* saved snapshot count only completed items of that crawl: totalPages is the
\* number of pages this run fetched successfully and totalPDFs the number of PDFs
\* it decoded successfully; failed URLs are not counted, although failed page
\* URLs are in visited. (The summary of saveData repeats the statistics.)
C20_CountsOfThisCrawl ==
    (pc = "idle" /\ outcome = "returned") =>
        /\ snapshot.statistics.totalPages = Count(phaseLog, "page")
        /\ snapshot.statistics.totalPDFs = Count(phaseLog, "document")
        /\ failed \subseteq visited

(***************************************************************************)
(* Properties of the scraped data (SpecCrawl)                              *)
(***************************************************************************)
\* the buckets that hold the page
BucketsOf(data, page) == {c \in DOMAIN data.categories : page \in Range(data.categories[c])}

\* every page is in the bucket of its category and in no other, and the buckets
\* hold as many entries as the page list
Categorized(data) ==
    /\ \A i \in 1..Len(data.pages) :
           BucketsOf(data, data.pages[i]) = {data.pages[i].category}
    /\ \A c \in DOMAIN data.categories :
           /\ Range(data.categories[c]) \subseteq Range(data.pages)
           /\ Cardinality(Range(data.categories[c])) = Len(data.categories[c])
    /\ SumLen(data.categories, DOMAIN data.categories) = Len(data.pages)

\* C21: every page of the session's page list is in exactly one category bucket,
\* the bucket named by its category field, so the sum of the bucket sizes
\* (statistics.categorizedPages once updateStatistics has run) equals the number
\* of pages.
C21_OneBucketPerPage ==
    /\ Categorized(scrapedData)
    /\ Categorized(snapshot)
    /\ snapshot.statistics.categorizedPages = Len(snapshot.pages)
    /\ snapshot.statistics.categorizedPages = snapshot.statistics.totalPages

\* a snapshot was saved with pages in three different buckets
C21_SeveralBuckets ==
    /\ pc = "idle" /\ outcome = "returned"
    /\ Len(snapshot.pages) >= 3
    /\ Cardinality({c \in DOMAIN snapshot.categories : snapshot.categories[c] # <<>>}) >= 3

\* the URLs whose render has completed successfully, in the order they were
\* popped from the frontier
RenderedUrls ==
    LET done == IF pc = "goto" THEN SubSeq(gotoLog, 1, Len(gotoLog) - 1) ELSE gotoLog
        Succeeded(e) == e.url \notin failed
        ok == SelectSeq(done, Succeeded)
    IN  [i \in 1..Len(ok) |-> ok[i].url]

\* the pages of a category, in the order of the page list
PagesOfCategory(data, c) ==
    LET InCategory(p) == p.category = c
    IN  SelectSeq(data.pages, InCategory)

\* C22: pages appear in the session's page list in the order in which their URLs
\* were popped from the frontier, and every category bucket lists its pages in the
\* same relative order as the page list.
C22_PopOrder ==
    /\ [i \in 1..Len(scrapedData.pages) |-> scrapedData.pages[i].url] = RenderedUrls
    /\ \A c \in DOMAIN scrapedData.categories :
           scrapedData.categories[c] = PagesOfCategory(scrapedData, c)

\* a crawl with a failed render has put two pages in one bucket, with a page of
\* another bucket between them in the page list
C22_InterleavedBuckets ==
    /\ pc = "idle" /\ outcome = "returned"
    /\ failed # {}
    /\ Len(scrapedData.categories["departments"]) = 2
    /\ \E i, j, k \in 1..Len(scrapedData.pages) :
           /\ i < j /\ j < k
           /\ scrapedData.pages[i].category = "departments"
           /\ scrapedData.pages[j].category # "departments"
           /\ scrapedData.pages[k].category = "departments"

(***************************************************************************)
(* Properties of processPDFDocuments (SpecFn, SpecCrawl)                   *)
(***************************************************************************)
NoDuplicates(seq) == Cardinality(Range(seq)) = Len(seq)

\* C23: one run of processPDFDocuments attempts at most 50 PDF URLs, each distinct
\* discovered PDF URL at most once, so it adds at most
\* min(number of discovered PDF URLs, 50) PdfDocument records.
C23_PdfCap ==
    fnCall.fn = "processPDFDocuments" =>
        LET discovered == Range(fnCall.urls)
            attempted == fnResult.value.attempted
        IN  /\ Len(attempted) <= 50
            /\ NoDuplicates(attempted)
            /\ Range(attempted) \subseteq discovered
            /\ Len(attempted) = Min(Cardinality(discovered), 50)
            /\ Len(fnResult.value.pdfs) <= Min(Cardinality(discovered), 50)
            /\ NoDuplicates([i \in 1..Len(fnResult.value.pdfs) |-> fnResult.value.pdfs[i].url])

\* 52 PDFs were discovered and 50 attempted, two of which failed
C23_CapApplied ==
    /\ fnCall.fn = "processPDFDocuments"
    /\ Len(fnCall.urls) = 52
    /\ Len(fnResult.value.attempted) = 50
    /\ Len(fnResult.value.pdfs) = 48

\* the positions of the PDF attempts of the current run in phaseLog
PdfAttempts ==
    LET IsAttempt(i) == phaseLog[i] = "pdf"
    IN  SelectSeq([i \in 1..Len(phaseLog) |-> i], IsAttempt)

\* the j-th attempt of the current run ended with a document pushed
AttemptDecoded(j) ==
    LET p == PdfAttempts[j]
    IN  p < Len(phaseLog) /\ phaseLog[p + 1] = "document"

\* the URLs of the documents the current run has pushed
DocumentsOfRun ==
    LET all == scrapedData.documents.pdfs
        n == Count(phaseLog, "document")
    IN  [i \in 1..n |-> all[Len(all) - n + i].url]

\* the step in which the download or the decoding of a PDF fails: nothing is
\* recorded and the loop goes on to the next index
C24_FailStep ==
    (pc = "pdfs" /\ phaseLog' = Append(phaseLog, "pdf")) =>
        /\ scrapedData' = scrapedData
        /\ pdfIndex' = pdfIndex + 1
        /\ pc' = "pdfs"
        /\ UNCHANGED <<pdfArray, pdfUrls, outcome, snapshot>>

\* every attempt is of the next URL of pdfArray, the documents pushed are those of
\* the attempts that succeeded, and the loop is left only after the last URL
C24_AttemptsAndRecords ==
    /\ Len(PdfAttempts) <= MaxPdfsOf(pdfArray)
    /\ pc = "pdfs" => Len(PdfAttempts) = pdfIndex
    /\ pc \in {"save", "cleanup"} => Len(PdfAttempts) = MaxPdfsOf(pdfArray)
    /\ LET Decoded(j) == AttemptDecoded(j)
           decoded == SelectSeq([j \in 1..Len(PdfAttempts) |-> j], Decoded)
       IN  DocumentsOfRun = [i \in 1..Len(decoded) |-> pdfArray[decoded[i]]]
    /\ (pc = "idle" /\ outcome = "returned") =>
           /\ Len(PdfAttempts) = MaxPdfsOf(pdfArray)
           /\ snapshot = scrapedData

\* C24: when downloading or decoding one PDF fails, no PdfDocument is recorded for
\* that URL, the URL is not retried, the remaining PDF URLs are still processed,
\* and the crawl still saves its snapshot and returns a summary.
C24_PdfFailure == []C24_AttemptsAndRecords /\ [][C24_FailStep]_vars

\* a first run returned after its first PDF failed and its second was decoded
C24_FailedThenDecoded ==
    /\ pc = "idle" /\ outcome = "returned" /\ sessions = 1
    /\ Len(PdfAttempts) = 2
    /\ ~AttemptDecoded(1)
    /\ AttemptDecoded(2)
    /\ [i \in 1..Len(snapshot.documents.pdfs) |-> snapshot.documents.pdfs[i].url]
           = <<pdfArray[2]>>

(***************************************************************************)
(* Properties of the server's initialization (SpecServer)                  *)
(***************************************************************************)
\* the handlers that start the system: the startup callback and POST /initialize
Initializers == {h \in Handlers : handlers[h].route \in {"startup", "initialize"}}

\* C25: when a required credential is missing, the initialization fails at once on
\* every path that starts it, POST /initialize and the startup auto-initialization:
\* no crawl, no chunking and no upsert happens and the server stays uninitialized.
C25_MissingCredentialStops ==
    ~validateEnvironment(processEnv) =>
        /\ ~serverInitialized
        /\ \A h \in Initializers : handlers[h].at \notin {"scrape", "process", "done"}

(***************************************************************************)
(* Properties of the chunk building (SpecFn)                               *)
(***************************************************************************)
Built == fnResult # NoCall /\ fnResult.fn = "buildDocuments"
BuiltFrom == ChunkSnapshots[fnCall.data]

IdsOf(docs) == [n \in 1..Len(docs) |-> docs[n].id]
TextsOf(docs) == [n \in 1..Len(docs) |-> docs[n].text]

C27_DistinctIds ==
    Built => /\ NoDuplicates(IdsOf(fnResult.value.first))
             /\ Cardinality(MapKeys(Upsert(<<>>, fnResult.value.first)))
                    = Len(fnResult.value.first)

\* a call that emitted chunks of every kind, two of them of one page
C27_EveryKind ==
    /\ Built
    /\ \A source \in {"webpage", "pdf", "links", "statistics"} :
           \E n \in 1..Len(fnResult.value.first) :
               fnResult.value.first[n].metadata.source = source
    /\ \E n \in 1..Len(fnResult.value.first) :
           /\ fnResult.value.first[n].metadata.source = "webpage"
           /\ fnResult.value.first[n].metadata.totalChunks > 1

\* the position in `list` of the page or PDF with this URL, counted from 0
IndexOfUrl(list, url) == (CHOOSE k \in 1..Len(list) : list[k].url = url) - 1

\* how many chunks of the same page or PDF come before docs[n]
PositionInSource(docs, n) ==
    Cardinality({m \in 1..(n - 1) : /\ docs[m].metadata.source = docs[n].metadata.source
                                    /\ docs[m].metadata.url = docs[n].metadata.url})

\* docs[n] has the id made of this prefix, this number and its position
HasId(docs, n, prefix, number) ==
    docs[n].id = prefix \o Dec(number) \o <<"-", "c", "h", "u", "n", "k", "-">> \o Dec(PositionInSource(docs, n))

\* every page chunk is numbered by its page's index in the page list
PageIdsByIndex(docs, data) ==
    \A n \in 1..Len(docs) :
        docs[n].metadata.source = "webpage" =>
            HasId(docs, n, <<"p", "a", "g", "e", "-">>, IndexOfUrl(data.pages, docs[n].metadata.url))

\* every PDF chunk is numbered by its PDF's index in the PDF list plus `offset`
PdfIdsByIndex(docs, data, offset) ==
    \A n \in 1..Len(docs) :
        docs[n].metadata.source = "pdf" =>
            HasId(docs, n, <<"p", "d", "f", "-">>,
                  offset + IndexOfUrl(data.documents.pdfs, docs[n].metadata.url))

Generated ==
    /\ ragPc = "idle"
    /\ chatLog # <<>> /\ chatLog[Len(chatLog)] = "generate"
    /\ chatResult.kind = "returned"
    /\ relevantDocs # <<>>

\* C29: for a non-empty retrieval result the answer's sources are one entry per
\* retrieved document in rank order, followed by one entry per relevant link with
\* score 0.8, so |sources| = |documents| + |relevantLinks|, and the confidence is
\* the score of the first retrieved document.
C29_SourcesAndConfidence ==
    Generated =>
        LET docs == relevantDocs
            links == chatResult.relevantLinks
            sources == chatResult.sources
        IN  /\ Len(sources) = Len(docs) + Len(links)
            /\ \A i \in 1..Len(docs) :
                   /\ sources[i].score = docs[i].score
                   /\ sources[i].url = docs[i].metadata.url
                   /\ sources[i].title = docs[i].metadata.title
                   /\ sources[i].sourceType = docs[i].metadata.sourceType
                   /\ sources[i].text = Substring0(docs[i].text, 200) \o <<".", ".", ".">>
            /\ \A j \in 1..Len(links) :
                   /\ Len(docs) + j \in DOMAIN sources
                   /\ sources[Len(docs) + j].sourceType = "link"
                   /\ sources[Len(docs) + j].score = linkScore
                   /\ sources[Len(docs) + j].url = links[j].url
                   /\ sources[Len(docs) + j].title = links[j].text
            /\ \A i \in 1..(Len(docs) - 1) : docs[i].score >= docs[i + 1].score
            /\ chatResult.confidence = docs[1].score

\* an answer made from two retrieved documents and at least one relevant link
C29_DocumentsAndLinks ==
    /\ Generated
    /\ Len(relevantDocs) = 2
    /\ Len(chatResult.relevantLinks) > 0
    /\ chatResult.confidence > linkScore

(***************************************************************************)
(* Properties of buildLinkDatabase (SpecFn)                                *)
(***************************************************************************)
LinksBuilt == fnResult # NoCall /\ fnResult.fn = "buildLinkDatabase"
LinksBuiltFrom == LinkSnapshots[fnCall.data]
LinksBefore == LinkDatabasesBefore[fnCall.before]

\* the keys the internal links and the pages of a snapshot are stored under
InternalKeys(data) == [i \in 1..Len(data.links.internal) |-> PageKey(data.links.internal[i].text)]
PageKeys(data) == [i \in 1..Len(data.pages) |-> PageKey(data.pages[i].title)]

\* the last position of key k in a sequence of keys that holds it
LastOf(keys, k) ==
    CHOOSE i \in 1..Len(keys) : keys[i] = k /\ \A j \in (i + 1)..Len(keys) : keys[j] # k

\* C30: when two insertions into the link database use the same key, the later
\* one replaces the earlier one; the pages are inserted after the internal links,
\* so a key 'page_' + slug shared by an internal link's text and a page's title
\* resolves to the page's entry after buildLinkDatabase.
C30_LastWriteWins ==
    LinksBuilt =>
        LET db == fnResult.value
            data == LinksBuiltFrom
        IN  /\ NoDuplicates([i \in 1..Len(db) |-> db[i].key])
            /\ \A k \in Range(PageKeys(data)) :
                   LET page == data.pages[LastOf(PageKeys(data), k)]
                   IN  /\ MapHas(db, k)
                       /\ MapGet(db, k).url = page.url
                       /\ MapGet(db, k).text = page.title
                       /\ DOMAIN MapGet(db, k) = {"type", "url", "text", "title", "category",
                                                  "wordCount"}
            /\ \A k \in Range(InternalKeys(data)) \ Range(PageKeys(data)) :
                   LET link == data.links.internal[LastOf(InternalKeys(data), k)]
                   IN  /\ MapHas(db, k)
                       /\ MapGet(db, k).url = link.url
                       /\ MapGet(db, k).text = link.text
                       /\ "context" \in DOMAIN MapGet(db, k)
            /\ \A k \in MapKeys(LinksBefore) :
                   (StartsWith(k, <<"p", "a", "g", "e", "_">>)
                    /\ k \notin Range(InternalKeys(data)) \cup Range(PageKeys(data)))
                       => MapHas(db, k) /\ MapGet(db, k) = MapGet(LinksBefore, k)

\* a build in which an internal link and a page share a key, two internal links
\* share another, and the map held the first key before
C30_SharedKey ==
    /\ LinksBuilt
    /\ \E k \in Range(InternalKeys(LinksBuiltFrom)) \cap Range(PageKeys(LinksBuiltFrom)) :
           /\ MapHas(LinksBefore, k)
           /\ MapGet(fnResult.value, k).url = U_placements
    /\ \E i, j \in 1..Len(LinksBuiltFrom.links.internal) :
           /\ i < j
           /\ InternalKeys(LinksBuiltFrom)[i] = InternalKeys(LinksBuiltFrom)[j]
           /\ LinksBuiltFrom.links.internal[i].url # LinksBuiltFrom.links.internal[j].url
           /\ MapGet(fnResult.value, InternalKeys(LinksBuiltFrom)[j]).url
                  = LinksBuiltFrom.links.internal[j].url

(***************************************************************************)
(* Properties of the link lists (SpecCrawl)                                *)
(***************************************************************************)
LinkKinds == {"pdf", "image", "internal", "external"}

\* the kind of a resolved link: pdf before image before internal before external
KindOfLink(href, fullUrl) ==
    IF Includes(ToLowerCase(href), <<".", "p", "d", "f">>) THEN "pdf"
    ELSE IF IsImageHref(ToLowerCase(href)) THEN "image"
    ELSE IF Includes(fullUrl, Domain) THEN "internal"
    ELSE "external"

\* the links of the page at `url` that resolve and are of this kind, as
\* [url, sourceUrl], in the order of the page
LinksOfKind(url, kind) ==
    LET links == SitePage(url).links
        OfKind(link) == /\ ResolveUrl(link.href, url).ok
                        /\ KindOfLink(link.href, ResolveUrl(link.href, url).href) = kind
        found == SelectSeq(links, OfKind)
    IN  [i \in 1..Len(found) |->
            [url |-> ResolveUrl(found[i].href, url).href, sourceUrl |-> url]]

\* the same for the pages of the site that have links
SiteLinksOfKind ==
    [u \in {U_home, U_placements, U_cse, U_people} |->
        [kind \in LinkKinds |-> LinksOfKind(u, kind)]]

\* the links of this kind discovered on the pages rendered so far
DiscoveredOfKind(kind) ==
    LET rendered == RenderedUrls
        each == [i \in 1..Len(rendered) |->
                    IF rendered[i] \in DOMAIN SiteLinksOfKind
                    THEN SiteLinksOfKind[rendered[i]][kind]
                    ELSE LinksOfKind(rendered[i], kind)]
    IN  Concat(each, Len(rendered))

Listed(list) == [i \in 1..Len(list) |-> [url |-> list[i].url, sourceUrl |-> list[i].sourceUrl]]

IsPrefix(s, t) == Len(s) <= Len(t) /\ SubSeq(t, 1, Len(s)) = s

\* every list holds the resolved links of its kind, each once, in discovery order,
\* and the total counted by updateStatistics is their number
C31_ListsAreDiscovered ==
    /\ \A kind \in LinkKinds : Listed(scrapedData.links[kind]) = DiscoveredOfKind(kind)
    /\ (pc \in {"save", "cleanup"} \/ (pc = "idle" /\ outcome = "returned")) =>
           scrapedData.statistics.totalLinks
               = Len(DiscoveredOfKind("pdf")) + Len(DiscoveredOfKind("image"))
                 + Len(DiscoveredOfKind("internal")) + Len(DiscoveredOfKind("external"))

\* every step leaves the entries of every list where they are
C31_ListsOnlyGrow ==
    \A kind \in LinkKinds : IsPrefix(scrapedData.links[kind], scrapedData'.links[kind])

\* C31: every outbound link of a successfully fetched page whose URL resolves is
\* appended to exactly one of links.pdf, links.image, links.internal and
\* links.external, chosen once at discovery (pdf before image before internal
\* before external), and is never moved or removed afterwards; hence
\* statistics.totalLinks is the number of resolved links discovered.
C31_LinkKinds == []C31_ListsAreDiscovered /\ [][C31_ListsOnlyGrow]_vars

\* a crawl returned with links of all four kinds, a PDF and an image of the
\* institute's own domain among them, and a link that did not resolve left out
C31_AllKinds ==
    /\ pc = "idle" /\ outcome = "returned"
    /\ \A kind \in LinkKinds : Len(scrapedData.links[kind]) > 0
    /\ \E i \in 1..Len(scrapedData.links.pdf) :
           Includes(scrapedData.links.pdf[i].url, Domain)
    /\ \E i \in 1..Len(scrapedData.links.image) :
           Includes(scrapedData.links.image[i].url, Domain)
    /\ \E i \in 1..Len(SitePage(U_home).links) :
           ~ResolveUrl(SitePage(U_home).links[i].href, U_home).ok
    /\ scrapedData.statistics.totalLinks > 4

(***************************************************************************)
(* Properties of the frontier (SpecCrawl)                                  *)
(***************************************************************************)
\* C32: within one crawl session every URL is rendered (page.goto) at most once,
\* even when the frontier holds several entries for the same URL at equal or
\* different depths.
C32_RenderedOnce ==
    \A i, j \in 1..Len(gotoLog) :
        (i < j /\ gotoLog[i].session = gotoLog[j].session) => gotoLog[i].url # gotoLog[j].url

\* the loop of the current session popped two entries for one URL, at different
\* depths, and the URL was rendered
C32_PoppedTwice ==
    \E i, j \in 1..Len(popLog) :
        /\ i < j
        /\ popLog[i].url = popLog[j].url
        /\ popLog[i].depth # popLog[j].depth
        /\ \E k \in 1..Len(gotoLog) :
               gotoLog[k].url = popLog[i].url /\ gotoLog[k].session = sessions

\* a step of the loop that pops takes the oldest pending entry; every other step
\* leaves the pending entries in place and adds new ones behind them
C33_PopStep ==
    IF Len(popLog') = Len(popLog) + 1
    THEN /\ toVisit # <<>>
         /\ popLog' = Append(popLog, Head(toVisit))
         /\ toVisit' = Tail(toVisit)
    ELSE IsPrefix(toVisit, toVisit')

\* the depths of the entries popped in a session never decrease
C33_DepthsNonDecreasing ==
    \A i, j \in 1..Len(popLog) : i < j => popLog[i].depth <= popLog[j].depth

\* C33: the frontier is consumed in insertion order: the entry popped is always
\* the oldest entry still pending, so the crawl is breadth-first and the depths of
\* successively popped entries are non-decreasing.
C33_InsertionOrder == [][C33_PopStep]_vars /\ []C33_DepthsNonDecreasing

\* a session has popped entries of three depths while entries were pending
C33_ThreeLevels ==
    /\ \E i, j, k \in 1..Len(popLog) :
           popLog[i].depth = 0 /\ popLog[j].depth = 1 /\ popLog[k].depth = 2
    /\ Len(toVisit) > 0

(***************************************************************************)
(* Properties of the batch loop (SpecRag)                                  *)
(***************************************************************************)
\* a step that upserts does so from a batch whose embedQuery calls all resolved,
\* and stores every chunk of that batch and nothing else
C34_UpsertStep ==
    upserted' \ upserted # {} =>
        /\ ragPc = "upsert"
        /\ rejected = {}
        /\ BatchAttempted(batchIndex) /\ ~BatchFailed(batchIndex)
        /\ upserted' = upserted \cup BatchIds(batchIndex)
        /\ BatchIds(batchIndex) \cap upserted = {}
        /\ BatchIds(batchIndex) \subseteq MapKeys(index')
        /\ batchLog' = Append(batchLog, Event("stored", batchIndex))

\* every batch of the call is stored whole or not at all, and a batch with a
\* rejected embedding is not stored
C34_WholeBatches ==
    (dataRef # 0) =>
        /\ \A b \in 0..(NumBatches(documents) - 1) :
               \/ BatchIds(b) \subseteq upserted /\ BatchStored(b)
               \/ BatchIds(b) \cap upserted = {} /\ ~BatchStored(b)
        /\ (rejected # {} /\ ragPc # "embed" /\ LastCall = "process") =>
               \E b \in 0..(NumBatches(documents) - 1) :
                   /\ BatchFailed(b)
                   /\ BatchIds(b) \cap upserted = {}
                   /\ \A later \in (b + 1)..(NumBatches(documents) - 1) :
                          ~BatchAttempted(later)

\* C34: a chunk is upserted to the vector store only if the embedding of every
\* chunk of its batch succeeded: a batch is upserted with all of its chunks in a
\* single upsert, or not at all.
C34_BatchAtomic == [][C34_UpsertStep]_vars /\ []C34_WholeBatches

\* one embedding of the second batch of five was rejected: the first batch is
\* stored whole and none of the second batch's chunks is
C34_OneRejected ==
    /\ LastCall = "process"
    /\ rejected = {1}
    /\ Cardinality(BatchIds(1)) = batchSize
    /\ BatchInStore(0)
    /\ BatchFailed(1)
    /\ BatchIds(1) \cap (upserted \cup MapKeys(index)) = {}

(***************************************************************************)
(* Properties of the prompt's links section (SpecFn)                       *)
(***************************************************************************)
\* the lines of a text
RECURSIVE Lines(_)
Lines(text) ==
    IF "\n" \notin Range(text) THEN <<text>>
    ELSE LET n == CHOOSE i \in 1..Len(text) : text[i] = "\n" /\ \A j \in 1..(i - 1) : text[j] # "\n"
         IN  <<SubSeq(text, 1, n - 1)>> \o Lines(SubSeq(text, n + 1, Len(text)))

\* C35: in the prompt's links section every relevant link that refers to a PDF
\* (a link-database entry under a 'pdf_' key, of type 'pdf' or 'pdf_document') is
\* labelled '(PDF Document)' and every page link is labelled '(Web Page)'.
C35_PdfLabel ==
    (fnResult # NoCall /\ fnResult.fn = "linksContext" /\ fnResult.value.links # <<>>) =>
        LET links == fnResult.value.links
            lines == Lines(fnResult.value.text)
        IN  /\ Len(lines) = Len(links) + 3
            /\ \A i \in 1..Len(links) :
                   EndsWith(lines[i + 3],
                            IF links[i].type \in {"pdf", "pdf_document"}
                            THEN <<"(", "P", "D", "F", " ", "D", "o", "c", "u", "m", "e", "n", "t", ")">> ELSE <<"(", "W", "e", "b", " ", "P", "a", "g", "e", ")">>)

(***************************************************************************)
(* Properties of findRelevantLinks (SpecFn)                                *)
(***************************************************************************)
\* C36: findRelevantLinks never returns the same link-database entry more than
\* once, also when the entry is reachable under two keys (text key and filename
\* alias) or matches both the PDF search and the general search.
C36_NoRepeatedLink ==
    (fnResult # NoCall /\ fnResult.fn = "findRelevantLinks") => NoDuplicates(fnResult.value)

\* the handlers that moved in this step
Moved == {h \in Handlers : handlers'[h] # handlers[h]}

\* the flag is set by an initializeSystem whose processAndStoreDocuments returned,
\* is never reset, is left alone by a step that throws, and an initializeSystem
\* entered while it is false starts the initialization again
C37_FlagStep ==
    /\ (serverInitialized' /\ ~serverInitialized) =>
           \E h \in Moved : /\ handlers[h].route \in {"startup", "initialize"}
                            /\ handlers[h].at = "process"
                            /\ handlers'[h].at = "done"
    /\ serverInitialized => serverInitialized'
    /\ \A h \in Moved :
           /\ handlers'[h].at = "failed" => serverInitialized' = serverInitialized
           /\ (handlers[h].at = "enter" /\ ~serverInitialized) => handlers'[h].at = "ragInit"
           /\ handlers'[h].at = "chat" => serverInitialized

\* a handler is inside ragSystem.chat only while the flag is true
C37_ChatWhileInitialized ==
    \A h \in Handlers : handlers[h].at = "chat" => serverInitialized

\* C37: the server's isInitialized flag becomes true only after
\* processAndStoreDocuments has completed within initializeSystem, never returns
\* to false, and stays false when any initialization step throws, so that the
\* initialization can be retried; /chat calls ragSystem.chat only while the flag
\* is true.
C37_InitializedFlag == [][C37_FlagStep]_vars /\ []C37_ChatWhileInitialized

\* the startup initialization failed, a POST /initialize then succeeded, and a
\* POST /chat is inside ragSystem.chat
C37_RetriedThenChat ==
    /\ handlers[0].at = "failed"
    /\ \E h, c \in Requests :
           /\ handlers[h].route = "initialize" /\ handlers[h].at = "done"
           /\ handlers[c].route = "chat" /\ handlers[c].at = "chat"
    /\ serverInitialized

(***************************************************************************)
(* Properties of clearIndex (SpecRag)                                      *)
(***************************************************************************)
ClearEnds(phase) == callLog' = Append(callLog, [call |-> "clear", phase |-> phase])

\* clearIndex throws without touching the link database or the index; the link
\* database is emptied only by the step in which deleteAll resolves; nothing is
\* cleared while deleteAll is pending
C38_ClearStep ==
    /\ ClearEnds("threw") => linkDatabase' = linkDatabase /\ index' = index
    /\ (ragPc = "deleteAll" /\ ragPc' = "idle") => ClearEnds("threw") \/ ClearEnds("returned")
    /\ (linkDatabase # <<>> /\ linkDatabase' = <<>>) =>
           /\ ragPc = "deleteAll"
           /\ ClearEnds("returned")
           /\ index' = <<>>
    /\ ragPc' = "deleteAll" => linkDatabase' = linkDatabase

\* C38: if the vector store's deleteAll fails during clearIndex, the error
\* propagates and the link database is left unchanged; the link database is
\* cleared only after deleteAll has succeeded.
C38_ClearAfterDelete == [][C38_ClearStep]_vars

\* clearIndex threw on a system that holds links and vectors
C38_DeleteAllFailed ==
    /\ LastCall = "clear" /\ LastPhase = "threw"
    /\ ragPc = "idle"
    /\ linkDatabase # <<>>
    /\ index # <<>>

(***************************************************************************)
(* Properties of the browser (SpecCrawl)                                   *)
(***************************************************************************)
\* the step in which scrapeComprehensive returns or throws
C39_FinishStep == (pc # "idle" /\ pc' = "idle") => outcome' \in {"returned", "threw"} /\ ~browser'

\* the crawl loop, the PDF ingestion, the snapshot save and the return run on an
\* open browser: it is cleanup that closes it
C39_OpenWhileRunning == pc \in {"loop", "goto", "pdfs", "save", "cleanup"} => browser

\* C39: whenever scrapeComprehensive finishes after the browser was launched,
\* whether by returning a result or by throwing from the crawl, PDF ingestion or
\* snapshot save, the browser has been closed.
C39_BrowserClosed ==
    /\ [][C39_FinishStep]_vars
    /\ [](C39_OpenWhileRunning)
    /\ [](pc = "idle" => ~browser)

\* scrapeComprehensive threw from saveData, after the crawl and the PDF ingestion
\* ran on the launched browser
C39_ThrewAfterLaunch ==
    /\ pc = "idle" /\ outcome = "threw"
    /\ "stats" \in Range(phaseLog)
    /\ scrapedData.pages # <<>>

====
